---- MODULE Spec2Model ----
(***************************************************************************)
(* Tic-tac-toe: the persisted game model (backend/models/Game.js), its     *)
(* move route, and the React Game component with its computer opponent.    *)
(*                                                                         *)
(* Server side.  `game` is one Game document, `response` the answer to the *)
(* last request on it.                                                     *)
(*                                                                         *)
(* Client side.  The useState cells of the Game component are variables of *)
(* the same names.  A user event (click, restart, mode or difficulty       *)
(* change) runs its handler against the committed render, and React        *)
(* renders, commits and runs the passive effects of a discrete event       *)
(* synchronously, so such an event is one step that ends with the effects  *)
(* settled.  A setTimeout callback (the computer's move) commits its       *)
(* update, and the passive effects of that commit run later ("after        *)
(* paint"): `pendingEffects` names the effects that still have to run, and *)
(* a user event may be handled before they do.  `aiTimer` is the armed     *)
(* 500 ms timer together with the render values its callback closes over.  *)
(*                                                                         *)
(* Timestamps are left out: no move, guard or outcome reads them.          *)
(*                                                                         *)
(* Direct calls.  The rules and the search are pure functions of a board;  *)
(* `arg` is the board handed to a direct call of one of them and           *)
(* `returned` what the call gave back.                                     *)
(*                                                                         *)
(* Overlapping requests.  A route handler runs until its next await; the   *)
(* handlers of two requests interleave at their awaits.  `inflight` holds, *)
(* for each request, the await it stands at and the documents it loaded.   *)
(* save() of a loaded document writes the paths the handler modified: an   *)
(* assigned array index and a changed field are set, pushed elements are   *)
(* appended to the stored array.                                           *)
(***************************************************************************)
EXTENDS Integers, Sequences, FiniteSets, TLC

VARIABLES
    game,            \* the Game document: board, moves, currentPlayer, status, result
    response,        \* message of the last answer of the server
    board,           \* client: 9 cells
    currentPlayer,   \* client: whose turn
    winner,          \* client: null, "X" or "O"
    winningSquares,  \* client: the highlighted line
    isDraw,          \* client
    gameMode,        \* client: "human" or "ai"
    aiDifficulty,    \* client: "easy", "medium" or "hard"
    moves,           \* client: the tracked move list
    aiTimer,         \* client: the armed AI timeout and its closure
    pendingEffects,  \* client: passive effects committed but not yet run
    arg,             \* the board handed to a direct call
    returned,        \* what the last direct call returned
    inflight,        \* server: the requests being handled, each at its await
    user,            \* server: the stats of the User document of u1
    matchSaved,      \* client: the current match was saved
    autoRestartTimer,      \* client: the id of the auto-restart interval, or none
    autoRestartCountdown,  \* client: seconds left before the auto-restart
    timers,          \* client: the live interval, the pending save timeouts and
                     \* the save requests awaiting their response
    saves,           \* the games finished and the save requests sent, in order
    auth             \* client: the state of the AuthProvider reducer, the token in
                     \* localStorage and the requests awaiting their response

serverVars == <<game, response>>
clientVars == <<board, currentPlayer, winner, winningSquares, isDraw, gameMode,
                aiDifficulty, moves, aiTimer, pendingEffects>>
callVars == <<arg, returned>>
requestVars == <<inflight, user>>
sessionVars == <<matchSaved, autoRestartTimer, autoRestartCountdown, timers, saves,
                 auth>>
vars == <<game, response, board, currentPlayer, winner, winningSquares, isDraw,
          gameMode, aiDifficulty, moves, aiTimer, pendingEffects, arg, returned,
          inflight, user, matchSaved, autoRestartTimer, autoRestartCountdown,
          timers, saves, auth>>

(***************************************************************************)
(* Bounds.  The first four marks of a game that a user or a random draw     *)
(* chooses go to the first MaxOpening cells of OpeningOrder; later marks   *)
(* are free.                                                               *)
(***************************************************************************)
MaxOpening == 4
OpeningOrder == <<0, 1, 4, 7, 2, 3, 5, 6, 8>>

\* The search without cut-offs is run on boards of at most MaxCompared empty squares.
MaxCompared == 6

\* Overlapping requests arrive at a game of at most MaxSetup moves.
MaxSetup == 4

\* The queries answered in a behaviour of SpecQuery, and the cells of
\* OpeningOrder its moves go to.
MaxQueries == 2
MaxQueried == 5

\* The games finished in a behaviour of SpecSession.
MaxGames == 2

\* The requests of the AuthProvider awaiting their response at one time.
MaxRequests == 2

null == "null"
undefined == "undefined"
Cells == 0..8
Marks == {"X", "O"}

\* JS Infinity of the search window; every score lies in -10..10.
Infinity == 1000

Max(a, b) == IF a >= b THEN a ELSE b
Min(a, b) == IF a <= b THEN a ELSE b

isFull(b) == \A i \in Cells : b[i] # null

\* Array(9).fill(null)
initializeBoard == [i \in Cells |-> null]

(***************************************************************************)
(* The persisted model.                                                    *)
(***************************************************************************)
modelWinningCombinations ==
    << <<0, 1, 2>>, <<3, 4, 5>>, <<6, 7, 8>>,
       <<0, 3, 6>>, <<1, 4, 7>>, <<2, 5, 8>>,
       <<0, 4, 8>>, <<2, 4, 6>> >>

noWinner == [player |-> null, line |-> <<>>]

\* checkWinner returning the last complete line of the list instead of the first.
modelScanLast(b, k) ==
    LET complete == {j \in k..8 :
                       LET line == modelWinningCombinations[j]
                       IN b[line[1]] # null /\ b[line[1]] = b[line[2]] /\ b[line[1]] = b[line[3]]}
    IN IF complete = {} THEN noWinner
       ELSE LET j == CHOOSE j \in complete : \A i \in complete : i <= j
            IN [player |-> b[modelWinningCombinations[j][1]], line |-> modelWinningCombinations[j]]

RECURSIVE modelScan(_, _)
modelScan(b, k) ==
    IF k > Len(modelWinningCombinations) THEN noWinner
    ELSE LET line == modelWinningCombinations[k]
             a == line[1]
         IN IF b[a] # null /\ b[a] = b[line[2]] /\ b[a] = b[line[3]]
            THEN [player |-> b[a], line |-> line]
            ELSE modelScan(b, k + 1)

\* gameSchema.methods.checkWinner; noWinner stands for its null.
modelCheckWinner(b) == modelScan(b, 1)

emptyResult ==
    [winner |-> null, winningLine |-> <<>>, endReason |-> null,
     playerXResult |-> null, playerOResult |-> null]

Users == {"u1", "u2"}

\* new Game({players, gameType, aiDifficulty}) of the create route: the other
\* fields take the schema defaults.
newGame(userId, gameType, difficulty) ==
    [players |-> [playerX |-> userId,
                  playerO |-> IF gameType = "ai" THEN null ELSE userId],
     gameType |-> gameType,
     aiDifficulty |-> IF gameType = "ai" THEN difficulty ELSE null,
     board |-> initializeBoard, moves |-> <<>>, currentPlayer |-> "X",
     status |-> "active", result |-> emptyResult, totalMoves |-> 0]

(***************************************************************************)
(* A request's `position` is a JSON value: a number (kept as twice its     *)
(* value, so that halves are representable) or something that is not a     *)
(* number.                                                                 *)
(***************************************************************************)
Num(i) == [type |-> "number", twice |-> 2 * i]
Half(n) == [type |-> "number", twice |-> n]
NotANumber(t) == [type |-> t, twice |-> 0]

isIndex(position) ==
    /\ position.type = "number"
    /\ position.twice % 2 = 0
    /\ (position.twice \div 2) \in Cells

indexOf(position) == position.twice \div 2

\* this.board[position]: an element for an index 0..8, undefined otherwise.
boardAt(b, position) == IF isIndex(position) THEN b[indexOf(position)] ELSE undefined

otherPlayer(player) == IF player = "X" THEN "O" ELSE "X"

\* makeMove's accepted branch with the turn handed over after a final move too.
makeMoveAcceptedAlwaysFlips(g, player, position) ==
    LET b == [g.board EXCEPT ![indexOf(position)] = player]
        m == Append(g.moves, [player |-> player, position |-> indexOf(position)])
        w == modelCheckWinner(b)
    IN IF w.player # null
       THEN [g EXCEPT !.board = b, !.moves = m,
                      !.result.winner = w.player,
                      !.result.winningLine = w.line,
                      !.result.endReason = "win",
                      !.status = "completed",
                      !.currentPlayer = otherPlayer(player)]
       ELSE IF isFull(b)
       THEN [g EXCEPT !.board = b, !.moves = m,
                      !.result.winner = "draw",
                      !.result.endReason = "draw",
                      !.status = "completed",
                      !.currentPlayer = otherPlayer(player)]
       ELSE [g EXCEPT !.board = b, !.moves = m,
                      !.currentPlayer = otherPlayer(player)]

\* makeMove's accepted branch without this.moves.push.
makeMoveAcceptedNoPush(g, player, position) ==
    LET b == [g.board EXCEPT ![indexOf(position)] = player]
        w == modelCheckWinner(b)
    IN IF w.player # null
       THEN [g EXCEPT !.board = b,
                      !.result.winner = w.player,
                      !.result.winningLine = w.line,
                      !.result.endReason = "win",
                      !.status = "completed"]
       ELSE IF isFull(b)
       THEN [g EXCEPT !.board = b,
                      !.result.winner = "draw",
                      !.result.endReason = "draw",
                      !.status = "completed"]
       ELSE [g EXCEPT !.board = b,
                      !.currentPlayer = otherPlayer(player)]

\* makeMove's accepted branch testing the full board before the winner.
makeMoveAcceptedDrawFirst(g, player, position) ==
    LET b == [g.board EXCEPT ![indexOf(position)] = player]
        m == Append(g.moves, [player |-> player, position |-> indexOf(position)])
        w == modelCheckWinner(b)
    IN IF isFull(b)
       THEN [g EXCEPT !.board = b, !.moves = m,
                      !.result.winner = "draw",
                      !.result.endReason = "draw",
                      !.status = "completed"]
       ELSE IF w.player # null
       THEN [g EXCEPT !.board = b, !.moves = m,
                      !.result.winner = w.player,
                      !.result.winningLine = w.line,
                      !.result.endReason = "win",
                      !.status = "completed"]
       ELSE [g EXCEPT !.board = b, !.moves = m,
                      !.currentPlayer = otherPlayer(player)]

\* makeMove's accepted branch with this.moves.unshift in place of push.
makeMoveAcceptedUnshift(g, player, position) ==
    LET b == [g.board EXCEPT ![indexOf(position)] = player]
        m == <<[player |-> player, position |-> indexOf(position)]>> \o g.moves
        w == modelCheckWinner(b)
    IN IF w.player # null
       THEN [g EXCEPT !.board = b, !.moves = m,
                      !.result.winner = w.player,
                      !.result.winningLine = w.line,
                      !.result.endReason = "win",
                      !.status = "completed"]
       ELSE IF isFull(b)
       THEN [g EXCEPT !.board = b, !.moves = m,
                      !.result.winner = "draw",
                      !.result.endReason = "draw",
                      !.status = "completed"]
       ELSE [g EXCEPT !.board = b, !.moves = m,
                      !.currentPlayer = otherPlayer(player)]

\* makeMove's accepted branch without the full-board test.
makeMoveAcceptedNoDraw(g, player, position) ==
    LET b == [g.board EXCEPT ![indexOf(position)] = player]
        m == Append(g.moves, [player |-> player, position |-> indexOf(position)])
        w == modelCheckWinner(b)
    IN IF w.player # null
       THEN [g EXCEPT !.board = b, !.moves = m,
                      !.result.winner = w.player,
                      !.result.winningLine = w.line,
                      !.result.endReason = "win",
                      !.status = "completed"]
       ELSE [g EXCEPT !.board = b, !.moves = m,
                      !.currentPlayer = otherPlayer(player)]

makeMoveAccepted(g, player, position) ==
    LET b == [g.board EXCEPT ![indexOf(position)] = player]
        m == Append(g.moves, [player |-> player, position |-> indexOf(position)])
        w == modelCheckWinner(b)
    IN IF w.player # null
       THEN [g EXCEPT !.board = b, !.moves = m,
                      !.result.winner = w.player,
                      !.result.winningLine = w.line,
                      !.result.endReason = "win",
                      !.status = "completed"]
       ELSE IF isFull(b)
       THEN [g EXCEPT !.board = b, !.moves = m,
                      !.result.winner = "draw",
                      !.result.endReason = "draw",
                      !.status = "completed"]
       ELSE [g EXCEPT !.board = b, !.moves = m,
                      !.currentPlayer = otherPlayer(player)]

\* makeMove without the turn check.
makeMoveNoTurnCheck(g, player, position) ==
    IF g.status # "active"
    THEN [game |-> g, error |-> "Game is not active"]
    ELSE IF boardAt(g.board, position) # null
    THEN [game |-> g, error |-> "Position already occupied"]
    ELSE [game |-> makeMoveAccepted(g, player, position), error |-> "none"]

\* makeMove without the occupied-position check.
makeMoveNoOccupiedCheck(g, player, position) ==
    IF g.status # "active"
    THEN [game |-> g, error |-> "Game is not active"]
    ELSE IF g.currentPlayer # player
    THEN [game |-> g, error |-> "Not your turn"]
    ELSE [game |-> makeMoveAccepted(g, player, position), error |-> "none"]

\* makeMove with the turn check ahead of the occupied-position check.
makeMoveTurnFirst(g, player, position) ==
    IF g.status # "active"
    THEN [game |-> g, error |-> "Game is not active"]
    ELSE IF g.currentPlayer # player
    THEN [game |-> g, error |-> "Not your turn"]
    ELSE IF boardAt(g.board, position) # null
    THEN [game |-> g, error |-> "Position already occupied"]
    ELSE [game |-> makeMoveAccepted(g, player, position), error |-> "none"]

\* makeMove refusing completed games only.
makeMoveCompletedOnly(g, player, position) ==
    IF g.status = "completed"
    THEN [game |-> g, error |-> "Game is not active"]
    ELSE IF boardAt(g.board, position) # null
    THEN [game |-> g, error |-> "Position already occupied"]
    ELSE IF g.currentPlayer # player
    THEN [game |-> g, error |-> "Not your turn"]
    ELSE [game |-> makeMoveAccepted(g, player, position), error |-> "none"]

\* gameSchema.methods.makeMove: the document afterwards and the error thrown.
makeMove(g, player, position) ==
    IF g.status # "active"
    THEN [game |-> g, error |-> "Game is not active"]
    ELSE IF boardAt(g.board, position) # null
    THEN [game |-> g, error |-> "Position already occupied"]
    ELSE IF g.currentPlayer # player
    THEN [game |-> g, error |-> "Not your turn"]
    ELSE [game |-> makeMoveAccepted(g, player, position), error |-> "none"]

\* The values a request body's `position` is drawn from.
PositionInputs ==
    {Num(i) : i \in -1..9} \cup {Half(3), NotANumber("string"), NotANumber("undefined")}

\* typeof position !== 'number' || position < 0 || position > 8
invalidPosition(position) ==
    \/ position.type # "number"
    \/ position.twice < 0
    \/ position.twice > 16

isParticipant(g, userId) ==
    \/ g.players.playerX = userId
    \/ (g.players.playerO # null /\ g.players.playerO = userId)

\* POST /:gameId/move: the document afterwards and the message answered.
moveRoute(g, userId, position) ==
    IF invalidPosition(position)
    THEN [game |-> g, message |-> "Invalid position"]
    ELSE IF ~isParticipant(g, userId)
    THEN [game |-> g, message |-> "You are not part of this game"]
    ELSE LET playerSymbol == IF g.players.playerX = userId THEN "X" ELSE "O"
             r == makeMove(g, playerSymbol, position)
         IN IF r.error # "none"
            THEN [game |-> r.game, message |-> r.error]
            ELSE [game |-> r.game, message |-> "Move made successfully"]

\* The collection before a game was created.
noGame == [status |-> "none"]

\* What a request that was refused, or not made, leaves as its view.
noView == [status |-> "none"]

\* !value of a request field: absent, null or the empty string.
falsy(value) == value \in {undefined, null, ""}

\* POST /create without the check of the difficulty.
createRouteAnyDifficulty(g, userId, gameType, difficulty) ==
    IF falsy(gameType) \/ gameType \notin {"human", "ai"}
    THEN [game |-> g, message |-> "Invalid game type"]
    ELSE [game |-> newGame(userId, gameType, difficulty),
          message |-> "Game created successfully"]

\* POST /create: the document afterwards and the message answered.
createRoute(g, userId, gameType, difficulty) ==
    IF falsy(gameType) \/ gameType \notin {"human", "ai"}
    THEN [game |-> g, message |-> "Invalid game type"]
    ELSE IF gameType = "ai" /\ (falsy(difficulty) \/ difficulty \notin {"easy", "medium", "hard"})
    THEN [game |-> g, message |-> "Invalid AI difficulty"]
    ELSE [game |-> newGame(userId, gameType, difficulty),
          message |-> "Game created successfully"]

\* getGameState(): the view of a game handed to the client.
getGameState(g) ==
    [gameType |-> g.gameType, aiDifficulty |-> g.aiDifficulty, board |-> g.board,
     currentPlayer |-> g.currentPlayer, status |-> g.status, result |-> g.result,
     moves |-> Len(g.moves)]

\* GET /:gameId counting the views it served in the document.
getRouteCounting(g, userId) ==
    IF ~isParticipant(g, userId)
    THEN [game |-> g, message |-> "You are not part of this game"]
    ELSE [game |-> [g EXCEPT !.totalMoves = g.totalMoves + 1], message |-> "game state"]

\* GET /:gameId: the document afterwards and what is answered, the game state.
getRoute(g, userId) ==
    IF ~isParticipant(g, userId)
    THEN [game |-> g, message |-> "You are not part of this game"]
    ELSE [game |-> g, message |-> "game state"]

\* DELETE /:gameId abandoning whatever the status.
abandonRouteAlways(g, userId) ==
    IF ~isParticipant(g, userId)
    THEN [game |-> g, message |-> "You are not part of this game"]
    ELSE [game |-> [g EXCEPT !.status = "abandoned", !.result.endReason = "abandoned"],
          message |-> "Game abandoned successfully"]

\* DELETE /:gameId
abandonRoute(g, userId) ==
    IF ~isParticipant(g, userId)
    THEN [game |-> g, message |-> "You are not part of this game"]
    ELSE IF g.status = "active"
    THEN [game |-> [g EXCEPT !.status = "abandoned", !.result.endReason = "abandoned"],
          message |-> "Game abandoned successfully"]
    ELSE [game |-> g, message |-> "Game abandoned successfully"]

\* Math.round((gamesWon / gamesPlayed) * 100)
winRateOf(gamesWon, gamesPlayed) == (200 * gamesWon + gamesPlayed) \div (2 * gamesPlayed)

\* userSchema.methods.updateStats: the stats afterwards.
updateStats(stats, gameResult) ==
    LET gamesPlayed == stats.gamesPlayed + 1
        gamesWon == stats.gamesWon + (IF gameResult = "win" THEN 1 ELSE 0)
    IN [gamesPlayed |-> gamesPlayed,
        gamesWon |-> gamesWon,
        gamesLost |-> stats.gamesLost + (IF gameResult = "loss" THEN 1 ELSE 0),
        gamesDraw |-> stats.gamesDraw + (IF gameResult = "draw" THEN 1 ELSE 0),
        winRate |-> winRateOf(gamesWon, gamesPlayed)]

\* The statistics update of POST /complete; the user is always X.
completeStats(stats, finalWinner) ==
    LET gamesPlayed == stats.gamesPlayed + 1
        gamesWon == stats.gamesWon + (IF finalWinner = "X" THEN 1 ELSE 0)
    IN [gamesPlayed |-> gamesPlayed,
        gamesWon |-> gamesWon,
        gamesLost |-> stats.gamesLost + (IF finalWinner \notin {"draw", "X"} THEN 1 ELSE 0),
        gamesDraw |-> stats.gamesDraw + (IF finalWinner = "draw" THEN 1 ELSE 0),
        winRate |-> winRateOf(gamesWon, gamesPlayed)]

\* The result the move route hands to updateStats.
resultFor(g, playerSymbol) ==
    IF g.result.winner = "draw" THEN "draw"
    ELSE IF g.result.winner = playerSymbol THEN "win"
    ELSE "loss"

\* game.save() of a loaded document: the modified paths written to the stored one.
saveGame(stored, loaded, doc) ==
    [stored EXCEPT
       !.board = [i \in Cells |-> IF doc.board[i] # loaded.board[i]
                                  THEN doc.board[i] ELSE stored.board[i]],
       !.moves = stored.moves \o SubSeq(doc.moves, Len(loaded.moves) + 1, Len(doc.moves)),
       !.currentPlayer = IF doc.currentPlayer # loaded.currentPlayer
                         THEN doc.currentPlayer ELSE stored.currentPlayer,
       !.status = IF doc.status # loaded.status THEN doc.status ELSE stored.status,
       !.result = [f \in DOMAIN stored.result |->
                      IF doc.result[f] # loaded.result[f] THEN doc.result[f] ELSE stored.result[f]]]

\* user.save() of a loaded document.
saveUser(stored, loaded, doc) ==
    [f \in DOMAIN stored |-> IF doc[f] # loaded[f] THEN doc[f] ELSE stored[f]]

\* The symbol the move route plays for a participant.
playerSymbolOf(g, userId) == IF g.players.playerX = userId THEN "X" ELSE "O"

(***************************************************************************)
(* The Game component: rules and computer opponent.                        *)
(***************************************************************************)
winningCombinations ==
    << <<0, 1, 2>>, <<3, 4, 5>>, <<6, 7, 8>>,
       <<0, 3, 6>>, <<1, 4, 7>>, <<2, 5, 8>>,
       <<0, 4, 8>>, <<2, 4, 6>> >>

noWinnerInfo == [player |-> null, squares |-> <<>>]

\* Combination k of winningCombinations holds three equal marks on b.
complete(b, k) ==
    /\ b[winningCombinations[k][1]] # null
    /\ b[winningCombinations[k][1]] = b[winningCombinations[k][2]]
    /\ b[winningCombinations[k][1]] = b[winningCombinations[k][3]]

\* for (let combination of winningCombinations) from combination k on: the
\* first complete one is returned.
scanCombinations(b, k) ==
    IF \E j \in k..Len(winningCombinations) : complete(b, j)
    THEN LET first == CHOOSE j \in k..Len(winningCombinations) :
                          /\ complete(b, j)
                          /\ \A h \in k..(j - 1) : ~complete(b, h)
         IN [player |-> b[winningCombinations[first][1]],
             squares |-> winningCombinations[first]]
    ELSE noWinnerInfo

\* checkWinner(board) of the component; noWinnerInfo stands for its null.
checkWinner(b) == scanCombinations(b, 1)

isDrawGame(b) == isFull(b) /\ checkWinner(b).player = null

switchPlayer(current) == IF current = "X" THEN "O" ELSE "X"

\* The value an AI function returns when no square is empty (JS null).
nullMove == 0 - 1

RECURSIVE emptyFrom(_, _)
emptyFrom(b, i) ==
    IF i > 8 THEN <<>>
    ELSE IF b[i] = null THEN <<i>> \o emptyFrom(b, i + 1)
    ELSE emptyFrom(b, i + 1)

\* The indexes of the empty squares, ascending.
emptySquares(b) == emptyFrom(b, 0)

\* makeRandomMove indexing the board instead of the list of empty squares.
makeRandomMoveAnySquare(b, randomIndex) ==
    LET e == emptySquares(b)
    IN IF Len(e) = 0 THEN nullMove ELSE randomIndex

\* makeRandomMove: randomIndex is Math.floor(Math.random() * emptySquares.length).
makeRandomMove(b, randomIndex) ==
    LET e == emptySquares(b)
    IN IF Len(e) = 0 THEN nullMove ELSE e[randomIndex + 1]

\* The values Math.floor(Math.random() * emptySquares.length) can take.
randomIndexes(b) ==
    LET n == Len(emptySquares(b)) IN IF n = 0 THEN {0} ELSE 0..(n - 1)

RECURSIVE minimax(_, _, _, _, _, _), maximize(_, _, _, _, _, _, _), minimize(_, _, _, _, _, _, _)
\* The inner minimax of makeBestMove(board, player).
\* minimax scoring a win 10 and a loss -10 at every depth.
minimaxNoDepth(b, player, depth, isMaximizing, alpha, beta) ==
    LET w == checkWinner(b)
    IN IF w.player = player THEN 10
       ELSE IF w.player = otherPlayer(player) THEN 0 - 10
       ELSE IF isDrawGame(b) THEN 0
       ELSE IF isMaximizing
       THEN maximize(b, player, depth, 0, alpha, beta, 0 - Infinity)
       ELSE minimize(b, player, depth, 0, alpha, beta, Infinity)

minimax(b, player, depth, isMaximizing, alpha, beta) ==
    LET w == checkWinner(b)
    IN IF w.player = player THEN 10 - depth
       ELSE IF w.player = otherPlayer(player) THEN depth - 10
       ELSE IF isDrawGame(b) THEN 0
       ELSE IF isMaximizing
       THEN maximize(b, player, depth, 0, alpha, beta, 0 - Infinity)
       ELSE minimize(b, player, depth, 0, alpha, beta, Infinity)

\* The maximizing loop breaking on alpha <= beta, the comparison turned round.
maximizeEagerBreak(b, player, depth, i, alpha, beta, maxEval) ==
    IF i > 8 THEN maxEval
    ELSE IF b[i] # null THEN maximize(b, player, depth, i + 1, alpha, beta, maxEval)
    ELSE LET evalScore == minimax([b EXCEPT ![i] = player], player, depth + 1, FALSE, alpha, beta)
             newMax == Max(maxEval, evalScore)
             newAlpha == Max(alpha, evalScore)
         IN IF newAlpha <= beta THEN newMax
            ELSE maximize(b, player, depth, i + 1, newAlpha, beta, newMax)

\* The maximizing loop from index i on, with the running alpha and maxEval.
maximize(b, player, depth, i, alpha, beta, maxEval) ==
    IF i > 8 THEN maxEval
    ELSE IF b[i] # null THEN maximize(b, player, depth, i + 1, alpha, beta, maxEval)
    ELSE LET evalScore == minimax([b EXCEPT ![i] = player], player, depth + 1, FALSE, alpha, beta)
             newMax == Max(maxEval, evalScore)
             newAlpha == Max(alpha, evalScore)
         IN IF beta <= newAlpha THEN newMax
            ELSE maximize(b, player, depth, i + 1, newAlpha, beta, newMax)

\* The minimizing loop that looks at no reply of the opponent.
minimizeNoReply(b, player, depth, i, alpha, beta, minEval) == 0

\* The minimizing loop from index i on, with the running beta and minEval.
minimize(b, player, depth, i, alpha, beta, minEval) ==
    IF i > 8 THEN minEval
    ELSE IF b[i] # null THEN minimize(b, player, depth, i + 1, alpha, beta, minEval)
    ELSE LET evalScore == minimax([b EXCEPT ![i] = otherPlayer(player)], player, depth + 1, TRUE, alpha, beta)
             newMin == Min(minEval, evalScore)
             newBeta == Min(beta, evalScore)
         IN IF newBeta <= alpha THEN newMin
            ELSE minimize(b, player, depth, i + 1, alpha, newBeta, newMin)

RECURSIVE bestFromLast(_, _, _, _, _)
\* The root loop keeping the last of the best moves (>= in place of >).
bestFromLast(b, player, i, bestMove, bestValue) ==
    IF i > 8 THEN [bestMove |-> bestMove, bestValue |-> bestValue]
    ELSE IF b[i] # null THEN bestFromLast(b, player, i + 1, bestMove, bestValue)
    ELSE LET moveValue == minimax([b EXCEPT ![i] = player], player, 0, FALSE, 0 - Infinity, Infinity)
         IN IF moveValue >= bestValue
            THEN bestFromLast(b, player, i + 1, i, moveValue)
            ELSE bestFromLast(b, player, i + 1, bestMove, bestValue)

RECURSIVE bestFromMaximizing(_, _, _, _, _)
\* The root loop searching its moves as maximizing nodes.
bestFromMaximizing(b, player, i, bestMove, bestValue) ==
    IF i > 8 THEN [bestMove |-> bestMove, bestValue |-> bestValue]
    ELSE IF b[i] # null THEN bestFromMaximizing(b, player, i + 1, bestMove, bestValue)
    ELSE LET moveValue == minimax([b EXCEPT ![i] = player], player, 0, TRUE, 0 - Infinity, Infinity)
         IN IF moveValue > bestValue
            THEN bestFromMaximizing(b, player, i + 1, i, moveValue)
            ELSE bestFromMaximizing(b, player, i + 1, bestMove, bestValue)

RECURSIVE bestFrom(_, _, _, _, _)
\* The root loop of makeBestMove from index i on: the final [bestMove, bestValue].
bestFrom(b, player, i, bestMove, bestValue) ==
    IF i > 8 THEN [bestMove |-> bestMove, bestValue |-> bestValue]
    ELSE IF b[i] # null THEN bestFrom(b, player, i + 1, bestMove, bestValue)
    ELSE LET moveValue == minimax([b EXCEPT ![i] = player], player, 0, FALSE, 0 - Infinity, Infinity)
         IN IF moveValue > bestValue
            THEN bestFrom(b, player, i + 1, i, moveValue)
            ELSE bestFrom(b, player, i + 1, bestMove, bestValue)

\* moveValue of the root loop for the empty square i.
moveValue(b, player, i) ==
    minimax([b EXCEPT ![i] = player], player, 0, FALSE, 0 - Infinity, Infinity)

\* makeBestMove left as the placeholder of components/Game.jsx.
makeBestMovePlaceholder(b, player, randomIndex) == makeRandomMove(b, randomIndex)

\* makeBestMove(board, player); randomIndex feeds the makeRandomMove fallback.
makeBestMove(b, player, randomIndex) ==
    LET best == bestFrom(b, player, 0, 0 - 1, 0 - Infinity)
    IN IF best.bestMove # 0 - 1 THEN best.bestMove ELSE makeRandomMove(b, randomIndex)

\* makeMediumMove: strategic is the outcome of Math.random() < 0.7.
makeMediumMove(b, player, strategic, randomIndex) ==
    IF strategic THEN makeBestMove(b, player, randomIndex) ELSE makeRandomMove(b, randomIndex)

\* checkWinner of components/Game.jsx.
winningCombinationsJsx ==
    << <<0, 1, 2>>, <<3, 4, 5>>, <<6, 7, 8>>,
       <<0, 3, 6>>, <<1, 4, 7>>, <<2, 5, 8>>,
       <<0, 4, 8>>, <<2, 4, 6>> >>

RECURSIVE scanCombinationsJsx(_, _)
scanCombinationsJsx(b, k) ==
    IF k > Len(winningCombinationsJsx) THEN noWinnerInfo
    ELSE LET combination == winningCombinationsJsx[k]
             a == combination[1]
         IN IF b[a] # null /\ b[a] = b[combination[2]] /\ b[a] = b[combination[3]]
            THEN [player |-> b[a], squares |-> combination]
            ELSE scanCombinationsJsx(b, k + 1)

checkWinnerJsx(b) == scanCombinationsJsx(b, 1)

\* makeBestMove of components/Game.jsx: the placeholder.
makeBestMoveJsx(b, player, randomIndex) == makeRandomMove(b, randomIndex)

\* makeMediumMove of components/Game.jsx.
makeMediumMoveJsx(b, player, strategic, randomIndex) ==
    IF strategic THEN makeBestMoveJsx(b, player, randomIndex) ELSE makeRandomMove(b, randomIndex)

(***************************************************************************)
(* The search on its working board.  minimax writes board[i] and restores  *)
(* it; the operators below thread the array through the calls and return   *)
(* it with the score, together with what was observed on the way:          *)
(*   restored  every call of the subtree returned with the array it got;   *)
(*   shrinks   every call of the subtree was made on an array with one     *)
(*             empty square fewer than its caller's;                       *)
(*   stops     every call of the subtree on an array with a complete line  *)
(*             or without an empty square made no recursive call;          *)
(*   deepest   the greatest depth argument of the subtree;                 *)
(*   calls     the recursive calls made in the subtree;                    *)
(*   breaks    the loops of the subtree left by `if (beta <= alpha) break`.*)
(***************************************************************************)
emptyCount(b) == Cardinality({i \in 0..8 : b[i] = null})

\* The array holds three equal marks on one of the eight lines, or no empty
\* square.
finishedBoard(b) ==
    \/ \E k \in 1..8 :
          /\ b[winningCombinations[k][1]] # null
          /\ b[winningCombinations[k][1]] = b[winningCombinations[k][2]]
          /\ b[winningCombinations[k][1]] = b[winningCombinations[k][3]]
    \/ emptyCount(b) = 0

RECURSIVE minimaxInPlace(_, _, _, _, _, _)

\* What a loop knows after the recursive call r of its iteration.
observed(t, r, placed, undone, evalScore) ==
    [t EXCEPT !.board = undone,
              !.evalScore = evalScore,
              !.restored = t.restored /\ r.restored,
              !.shrinks = t.shrinks /\ r.shrinks /\ emptyCount(placed) = t.entry - 1,
              !.stops = t.stops /\ r.stops /\ (finishedBoard(placed) => r.calls = 0),
              !.deepest = Max(t.deepest, r.deepest),
              !.calls = t.calls + 1 + r.calls,
              !.breaks = t.breaks + r.breaks]

\* The loop was left by its break.
broken(t) == [t EXCEPT !.breaks = @ + 1]

\* A loop before its first iteration: what it knows, its window, its running
\* maxEval or minEval, and whether a break has left it.
entering(t, alpha, beta, eval) ==
    [t |-> t, alpha |-> alpha, beta |-> beta, eval |-> eval, left |-> FALSE]

\* if (beta <= alpha) break, on the loop s after an iteration that observed t
\* and left eval, alpha and beta.
tested(s, t, eval, alpha, beta) ==
    IF beta <= alpha
    THEN [s EXCEPT !.t = broken(t), !.eval = eval, !.alpha = alpha, !.beta = beta,
                   !.left = TRUE]
    ELSE [s EXCEPT !.t = t, !.eval = eval, !.alpha = alpha, !.beta = beta]

\* The maximizing iteration after its call, leaving the loop at the break
\* before board[i] = null.
maximizedBreakFirst(s, i, placed, r) ==
    LET undone == [r.board EXCEPT ![i] = null]
        newMax == Max(s.eval, r.evalScore)
    IN IF r.evalScore > s.alpha
       THEN tested(s, observed(s.t, r, placed,
                               IF s.beta <= r.evalScore THEN r.board ELSE undone, newMax),
                   newMax, r.evalScore, s.beta)
       ELSE tested(s, observed(s.t, r, placed,
                               IF s.beta <= s.alpha THEN r.board ELSE undone, newMax),
                   newMax, s.alpha, s.beta)

\* The maximizing iteration after its call r on placed: board[i] = null, maxEval
\* and alpha raised to evalScore (Math.max), then the break test.
maximized(s, i, placed, r) ==
    LET undone == [r.board EXCEPT ![i] = null]
        newMax == Max(s.eval, r.evalScore)
    IN IF r.evalScore > s.alpha
       THEN tested(s, observed(s.t, r, placed, undone, newMax), newMax, r.evalScore, s.beta)
       ELSE tested(s, observed(s.t, r, placed, undone, newMax), newMax, s.alpha, s.beta)

\* The minimizing iteration after its call: board[i] = null, minEval and beta
\* lowered to evalScore (Math.min), then the break test.
minimized(s, i, placed, r) ==
    LET undone == [r.board EXCEPT ![i] = null]
        newMin == Min(s.eval, r.evalScore)
    IN IF r.evalScore < s.beta
       THEN tested(s, observed(s.t, r, placed, undone, newMin), newMin, s.alpha, r.evalScore)
       ELSE tested(s, observed(s.t, r, placed, undone, newMin), newMin, s.alpha, s.beta)

\* Iteration i of the maximizing loop, s the loop before it: skipped after a
\* break and on an occupied square, else board[i] = player and the call.
maximizeInPlace(player, depth, i, s) ==
    CASE s.left -> s
      [] s.t.board[i] # null -> s
      [] OTHER ->
           maximized(s, i, [s.t.board EXCEPT ![i] = player],
                     minimaxInPlace([s.t.board EXCEPT ![i] = player], player,
                                    depth + 1, FALSE, s.alpha, s.beta))

\* Iteration i of the minimizing loop: board[i] = opponent and the call.
minimizeInPlace(player, depth, i, s) ==
    CASE s.left -> s
      [] s.t.board[i] # null -> s
      [] OTHER ->
           minimized(s, i, [s.t.board EXCEPT ![i] = otherPlayer(player)],
                     minimaxInPlace([s.t.board EXCEPT ![i] = otherPlayer(player)], player,
                                    depth + 1, TRUE, s.alpha, s.beta))

\* Three consecutive iterations of a loop, from square i.
maximizeThree(player, depth, i, s) ==
    maximizeInPlace(player, depth, i + 2,
        maximizeInPlace(player, depth, i + 1, maximizeInPlace(player, depth, i, s)))

minimizeThree(player, depth, i, s) ==
    minimizeInPlace(player, depth, i + 2,
        minimizeInPlace(player, depth, i + 1, minimizeInPlace(player, depth, i, s)))

\* What a call returns after its loop s, entered on board b: maxEval or
\* minEval, and whether the working board is the one the call was entered with.
loopResult(s, b) ==
    [s.t EXCEPT !.evalScore = s.eval, !.restored = @ /\ s.t.board = b]

\* for (let i = 0; i < 9; i++) of the maximizing branch: the loop after squares
\* 0..2, 3..5 and 6..8 in this order.
maximizingLoop(player, depth, alpha, beta, t) ==
    LET s3 == maximizeThree(player, depth, 0, entering(t, alpha, beta, 0 - Infinity))
        s6 == maximizeThree(player, depth, 3, s3)
        s9 == maximizeThree(player, depth, 6, s6)
    IN <<s3, s6, loopResult(s9, t.board)>>[3]

\* for (let i = 0; i < 9; i++) of the minimizing branch.
minimizingLoop(player, depth, alpha, beta, t) ==
    LET s3 == minimizeThree(player, depth, 0, entering(t, alpha, beta, Infinity))
        s6 == minimizeThree(player, depth, 3, s3)
        s9 == minimizeThree(player, depth, 6, s6)
    IN <<s3, s6, loopResult(s9, t.board)>>[3]

\* minimax going on below a complete line: only the full board ends the descent.
minimaxInPlaceFullOnly(b, player, depth, isMaximizing, alpha, beta) ==
    LET t == [board |-> b, evalScore |-> 0, restored |-> TRUE, shrinks |-> TRUE, stops |-> TRUE,
              deepest |-> depth, calls |-> 0, breaks |-> 0, entry |-> emptyCount(b)]
    IN CASE emptyCount(b) = 0 -> t
         [] isMaximizing -> maximizingLoop(player, depth, alpha, beta, t)
         [] OTHER -> minimizingLoop(player, depth, alpha, beta, t)

\* minimax(board, depth, isMaximizing, alpha, beta) on the working board b.
minimaxInPlace(b, player, depth, isMaximizing, alpha, beta) ==
    LET w == checkWinner(b)
        t == [board |-> b, evalScore |-> 0, restored |-> TRUE, shrinks |-> TRUE, stops |-> TRUE,
              deepest |-> depth, calls |-> 0, breaks |-> 0, entry |-> emptyCount(b)]
    IN CASE w.player = player -> [t EXCEPT !.evalScore = 10 - depth]
         [] w.player = otherPlayer(player) -> [t EXCEPT !.evalScore = depth - 10]
         [] isDrawGame(b) -> t
         [] isMaximizing -> maximizingLoop(player, depth, alpha, beta, t)
         [] OTHER -> minimizingLoop(player, depth, alpha, beta, t)

\* The root iteration after its call r: board[i] = null, and the move kept when
\* moveValue > bestValue.
bestAfter(s, i, placed, r) ==
    LET seen == observed(s.t, r, placed, [r.board EXCEPT ![i] = null], r.evalScore)
    IN IF r.evalScore > s.bestValue
       THEN [t |-> seen, bestMove |-> i, bestValue |-> r.evalScore]
       ELSE [s EXCEPT !.t = seen]

\* Iteration i of the root loop of makeBestMove on boardCopy.
bestFromInPlace(player, i, s) ==
    CASE s.t.board[i] # null -> s
      [] OTHER ->
           bestAfter(s, i, [s.t.board EXCEPT ![i] = player],
                     minimaxInPlace([s.t.board EXCEPT ![i] = player], player,
                                    0, FALSE, 0 - Infinity, Infinity))

bestFromThree(player, i, s) ==
    bestFromInPlace(player, i + 2,
        bestFromInPlace(player, i + 1, bestFromInPlace(player, i, s)))

\* What makeBestMove has after its loop s.
chosen(s) == [s.t EXCEPT !.evalScore = s.bestValue] @@ [bestMove |-> s.bestMove]

\* The move makeBestMove returns: bestMove, or a random one when none was kept.
moveOf(best, b, randomIndex) ==
    [move |-> IF best.bestMove # 0 - 1 THEN best.bestMove
              ELSE makeRandomMove(b, randomIndex),
     board |-> b, boardCopy |-> best.board, search |-> best]

\* makeBestMove(board, player): the move, the caller's board and boardCopy
\* afterwards, and what the search observed.
makeBestMoveInPlace(b, player, randomIndex) ==
    LET boardCopy == b
        s0 == [t |-> [board |-> boardCopy, evalScore |-> 0, restored |-> TRUE,
                      shrinks |-> TRUE, stops |-> TRUE, deepest |-> 0, calls |-> 0,
                      breaks |-> 0, entry |-> emptyCount(boardCopy)],
               bestMove |-> 0 - 1, bestValue |-> 0 - Infinity]
        s3 == bestFromThree(player, 0, s0)
        s6 == bestFromThree(player, 3, s3)
        s9 == bestFromThree(player, 6, s6)
    IN <<s3, s6, moveOf(chosen(s9), b, randomIndex)>>[3]

(***************************************************************************)
(* The Game component: state, handlers and effects.                        *)
(***************************************************************************)
noTimer == [armed |-> FALSE]

\* The values of the committed render, which handlers and effects close over.
clientState ==
    [board |-> board, currentPlayer |-> currentPlayer, winner |-> winner,
     winningSquares |-> winningSquares, isDraw |-> isDraw, gameMode |-> gameMode,
     aiDifficulty |-> aiDifficulty, moves |-> moves, aiTimer |-> aiTimer]

\* handleClick(index) of render R, its updates applied to the state cur.
handleClick(cur, R, index) ==
    IF R.winner # null \/ R.isDraw \/ R.board[index] # null
    THEN cur
    ELSE [cur EXCEPT
            !.moves = Append(cur.moves, [player |-> R.currentPlayer, position |-> index]),
            !.board = [R.board EXCEPT ![index] = R.currentPlayer],
            !.currentPlayer = switchPlayer(R.currentPlayer)]

\* A resetGame that keeps the move list.
resetGameKeepingMoves(cur) ==
    [cur EXCEPT !.board = initializeBoard, !.currentPlayer = "X", !.winner = null,
                !.winningSquares = <<>>, !.isDraw = FALSE]

\* resetGame(): the restart of a game.
resetGame(cur) ==
    [cur EXCEPT !.board = initializeBoard, !.currentPlayer = "X", !.winner = null,
                !.winningSquares = <<>>, !.isDraw = FALSE, !.moves = <<>>]

\* The AI move effect arming no timeout in place of one its cleanup cleared.
aiEffectNotRearmed(cur, R) ==
    IF R.gameMode = "ai" /\ R.currentPlayer = "O" /\ R.winner = null /\ ~R.isDraw
       /\ ~cur.aiTimer.armed
    THEN [cur EXCEPT !.aiTimer =
            [armed |-> TRUE, board |-> R.board, currentPlayer |-> R.currentPlayer,
             winner |-> R.winner, isDraw |-> R.isDraw, aiDifficulty |-> R.aiDifficulty]]
    ELSE [cur EXCEPT !.aiTimer = noTimer]

\* The AI move effect of render R: its cleanup clears the previous timeout, its
\* body arms a new one that closes over R.
aiEffect(cur, R) ==
    IF R.gameMode = "ai" /\ R.currentPlayer = "O" /\ R.winner = null /\ ~R.isDraw
    THEN [cur EXCEPT !.aiTimer =
            [armed |-> TRUE, board |-> R.board, currentPlayer |-> R.currentPlayer,
             winner |-> R.winner, isDraw |-> R.isDraw, aiDifficulty |-> R.aiDifficulty]]
    ELSE [cur EXCEPT !.aiTimer = noTimer]

\* The detection effect calling a full board a draw, complete line or not.
winnerEffectFullIsDraw(cur, R) ==
    LET winnerInfo == checkWinner(R.board)
    IN IF isFull(R.board)
       THEN [cur EXCEPT !.isDraw = TRUE]
       ELSE IF winnerInfo.player # null
       THEN [cur EXCEPT !.winner = winnerInfo.player, !.winningSquares = winnerInfo.squares]
       ELSE cur

\* The winner/draw detection effect of render R.
winnerEffect(cur, R) ==
    LET winnerInfo == checkWinner(R.board)
    IN IF winnerInfo.player # null
       THEN [cur EXCEPT !.winner = winnerInfo.player, !.winningSquares = winnerInfo.squares]
       ELSE IF isDrawGame(R.board)
       THEN [cur EXCEPT !.isDraw = TRUE]
       ELSE cur

\* The passive effects `names` of render R, in declaration order.
runEffects(cur, R, names) ==
    LET afterAi == IF "ai" \in names THEN aiEffect(cur, R) ELSE cur
    IN IF "winner" \in names THEN winnerEffect(afterAi, R) ELSE afterAi

\* The effects whose dependency lists differ between two renders; newBoard says
\* that setBoard was given a new array.
changedEffects(old, new, newBoard) ==
    (IF newBoard THEN {"winner"} ELSE {})
    \cup (IF \/ newBoard
             \/ old.currentPlayer # new.currentPlayer
             \/ old.gameMode # new.gameMode
             \/ old.winner # new.winner
             \/ old.isDraw # new.isDraw
             \/ old.aiDifficulty # new.aiDifficulty
          THEN {"ai"} ELSE {})

RECURSIVE settle(_, _)
\* Render, run the effects, render again ... until no effect is left to run.
settle(R, names) ==
    IF names = {} THEN R
    ELSE LET n == runEffects(R, R, names)
         IN settle(n, changedEffects(R, n, FALSE))

\* A discrete event: its handler's updates (cur), then the effects still pending
\* from render R, then the synchronous render and its effects.
discreteEvent(cur, R, pending, newBoard) ==
    LET flushed == runEffects(cur, R, pending)
    IN settle(flushed, changedEffects(R, flushed, newBoard))

\* The timeout callback of the AI effect: the move chosen for the closure's
\* board, then the closure's handleClick.
aiCallback(cur, closure, aiMove) ==
    IF aiMove = nullMove
    THEN [cur EXCEPT !.aiTimer = noTimer]
    ELSE [handleClick(cur, closure, aiMove) EXCEPT !.aiTimer = noTimer]

\* The switch (aiDifficulty) of the timeout callback.
aiMoveOf(closure, strategic, randomIndex) ==
    IF closure.aiDifficulty = "easy" THEN makeRandomMove(closure.board, randomIndex)
    ELSE IF closure.aiDifficulty = "hard" THEN makeBestMove(closure.board, "O", randomIndex)
    ELSE makeMediumMove(closure.board, "O", strategic, randomIndex)

\* Whether the callback consumes the random index for a board with empty squares.
drawsIndex(closure, strategic) ==
    \/ closure.aiDifficulty = "easy"
    \/ (closure.aiDifficulty \notin {"easy", "hard"} /\ ~strategic)

\* The switch (aiDifficulty) of the timeout callback of components/Game.jsx.
aiMoveOfJsx(closure, strategic, randomIndex) ==
    IF closure.aiDifficulty = "easy" THEN makeRandomMove(closure.board, randomIndex)
    ELSE IF closure.aiDifficulty = "hard" THEN makeBestMoveJsx(closure.board, "O", randomIndex)
    ELSE makeMediumMoveJsx(closure.board, "O", strategic, randomIndex)

\* No direct call was made yet.
nothingReturned == [op |-> "none"]

\* The requests a behaviour overlaps.
Requests == {1, 2}

idle == [stage |-> "idle"]

\* stats of a new User document (the schema defaults).
newStats == [gamesPlayed |-> 0, gamesWon |-> 0, gamesLost |-> 0, gamesDraw |-> 0, winRate |-> 0]

\* No request is being handled and the user has played no game.
requestsIdle ==
    /\ inflight = [r \in Requests |-> idle]
    /\ user = newStats

\* No interval is live.
noInterval == [armed |-> FALSE]

\* The null of autoRestartTimer.  setInterval returns positive integers, so
\* 0 is as falsy as null and names no interval.
noIntervalId == 0

(***************************************************************************)
(* The AuthProvider: the reducer, and the provider after its mount effect. *)
(* A token is "t1" (issued by login, or found in localStorage) or "t2"     *)
(* (issued by register); the user of a token is "u1" or "u2".              *)
(***************************************************************************)
\* initialState, with the token localStorage holds.
initialState(stored) ==
    [isAuthenticated |-> FALSE, user |-> null, token |-> stored,
     loading |-> FALSE, error |-> null]

authReducer(state, action) ==
    IF action.type = "LOGIN_START"
    THEN [state EXCEPT !.loading = TRUE, !.error = null]
    ELSE IF action.type = "LOGIN_SUCCESS"
    THEN [state EXCEPT !.loading = FALSE, !.isAuthenticated = TRUE,
                       !.user = action.payload.user, !.token = action.payload.token,
                       !.error = null]
    ELSE IF action.type = "LOGIN_FAILURE"
    THEN [state EXCEPT !.loading = FALSE, !.isAuthenticated = FALSE, !.user = null,
                       !.token = null, !.error = action.payload]
    ELSE IF action.type = "LOGOUT"
    THEN [state EXCEPT !.isAuthenticated = FALSE, !.user = null, !.token = null,
                       !.error = null, !.loading = FALSE]
    ELSE IF action.type = "UPDATE_USER"
    THEN [state EXCEPT !.user = action.payload]
    ELSE IF action.type = "CLEAR_ERROR"
    THEN [state EXCEPT !.error = null]
    ELSE state

\* The user the server answers for a token.
userOf(token) == IF token = "t1" THEN "u1" ELSE "u2"

\* The provider once mounted: the mount effect calls verifyToken for a stored
\* token, which dispatches LOGIN_START and sends the request.
mounted(stored) ==
    IF stored # null
    THEN [state |-> authReducer(initialState(stored), [type |-> "LOGIN_START"]),
          localStorage |-> stored,
          requests |-> {[op |-> "verify", token |-> stored]}]
    ELSE [state |-> initialState(stored), localStorage |-> stored, requests |-> {}]

\* The useState initial values of the session, nothing scheduled, nothing sent.
sessionFresh ==
    /\ matchSaved = FALSE
    /\ autoRestartTimer = noIntervalId
    /\ autoRestartCountdown = 0
    /\ timers = [interval |-> noInterval, timeouts |-> <<>>, requests |-> 0, started |-> 0]
    /\ saves = [finished |-> <<>>, submitted |-> <<>>]
    /\ auth = mounted(null)

Init ==
    /\ game = newGame("u1", "human", null)
    /\ response = "none"
    /\ board = initializeBoard
    /\ currentPlayer = "X"
    /\ winner = null
    /\ winningSquares = <<>>
    /\ isDraw = FALSE
    /\ gameMode = "human"
    /\ aiDifficulty = "medium"
    /\ moves = <<>>
    /\ aiTimer = noTimer
    /\ pendingEffects = {}
    /\ arg = initializeBoard
    /\ returned = nothingReturned
    /\ requestsIdle
    /\ sessionFresh

\* An opening mark chosen by a user or a random draw stays within the bound.
inOpening(history, i) ==
    Len(history) < 4 => \E k \in 1..MaxOpening : OpeningOrder[k] = i

(***************************************************************************)
(* Server actions.                                                         *)
(***************************************************************************)
\* A direct call of the model method.
MakeMove(player, i) ==
    /\ inOpening(game.moves, i)
    /\ LET r == makeMove(game, player, Num(i))
       IN /\ game' = r.game
          /\ response' = IF r.error = "none" THEN "Move made successfully" ELSE r.error
    /\ UNCHANGED <<clientVars, callVars, requestVars, sessionVars>>

\* One move request handled from its arrival to its answer, the statistics
\* of a move that completed the game included.
MoveRequest(userId, position) ==
    /\ isIndex(position) => inOpening(game.moves, indexOf(position))
    /\ LET r == moveRoute(game, userId, position)
       IN /\ game' = r.game
          /\ response' = r.message
          /\ user' = IF r.message = "Move made successfully" /\ r.game.status = "completed"
                     THEN updateStats(user, resultFor(r.game, playerSymbolOf(game, userId)))
                     ELSE user
    /\ UNCHANGED <<clientVars, callVars, inflight, sessionVars>>

AbandonRequest(userId) ==
    /\ LET r == abandonRoute(game, userId)
       IN /\ game' = r.game
          /\ response' = r.message
    /\ UNCHANGED <<clientVars, callVars, requestVars, sessionVars>>

GetRequest(userId) ==
    /\ LET r == getRoute(game, userId)
       IN /\ game' = r.game
          /\ response' = r.message
    /\ UNCHANGED <<clientVars, callVars, requestVars, sessionVars>>

ServerNext ==
    \/ \E player \in Marks, i \in Cells : MakeMove(player, i)
    \/ \E userId \in Users, position \in PositionInputs : MoveRequest(userId, position)
    \/ \E userId \in Users : AbandonRequest(userId)
    \/ \E userId \in Users : GetRequest(userId)

(***************************************************************************)
(* Overlapping requests: each handler advances from await to await.        *)
(***************************************************************************)
\* The request r answered with message; submitted tells whether the user's
\* statistics took a completed game from it.
answered(q, message, submitted) ==
    [stage |-> "done", kind |-> q.kind, loaded |-> q.loaded, userId |-> q.userId,
     position |-> q.position, message |-> message, submitted |-> submitted]

\* POST /:gameId/move up to `await Game.findById`.
MoveReceive(r, userId, position) ==
    /\ inflight[r] = idle
    /\ isIndex(position) => inOpening(game.moves, indexOf(position))
    /\ LET q == [stage |-> "loaded", kind |-> "move", loaded |-> game,
                 userId |-> userId, position |-> position]
       IN IF invalidPosition(position)
          THEN /\ inflight' = [inflight EXCEPT ![r] = answered(q, "Invalid position", FALSE)]
               /\ response' = "Invalid position"
          ELSE /\ inflight' = [inflight EXCEPT ![r] = q]
               /\ response' = response
    /\ UNCHANGED <<game, user, clientVars, callVars, sessionVars>>

\* From the loaded game to `await game.makeMove`: the participant check, the
\* move on the loaded document and its save.
MoveApply(r) ==
    /\ inflight[r].stage = "loaded"
    /\ LET q == inflight[r]
           playerSymbol == playerSymbolOf(q.loaded, q.userId)
           m == makeMove(q.loaded, playerSymbol, q.position)
       IN IF ~isParticipant(q.loaded, q.userId)
          THEN /\ inflight' = [inflight EXCEPT ![r] = answered(q, "You are not part of this game", FALSE)]
               /\ response' = "You are not part of this game"
               /\ game' = game
          ELSE IF m.error # "none"
          THEN /\ inflight' = [inflight EXCEPT ![r] = answered(q, m.error, FALSE)]
               /\ response' = m.error
               /\ game' = game
          ELSE /\ game' = saveGame(game, q.loaded, m.game)
               /\ IF m.game.status = "completed"
                  THEN /\ inflight' = [inflight EXCEPT ![r] =
                                         [q EXCEPT !.stage = "saved"] @@
                                         [gameResult |-> resultFor(m.game, playerSymbol)]]
                       /\ response' = response
                  ELSE /\ inflight' = [inflight EXCEPT ![r] = answered(q, "Move made successfully", FALSE)]
                       /\ response' = "Move made successfully"
    /\ UNCHANGED <<user, clientVars, callVars, sessionVars>>

\* POST /complete up to `await game.completeGame`: the board check and the
\* record of the finished game, a document of its own.
CompleteReceive(r, validBoard, finalWinner) ==
    /\ inflight[r] = idle
    /\ LET q == [stage |-> "saved", kind |-> "complete", loaded |-> game,
                 userId |-> "u1", position |-> Num(0), finalWinner |-> finalWinner]
       IN IF ~validBoard
          THEN /\ inflight' = [inflight EXCEPT ![r] = answered(q, "Invalid board state", FALSE)]
               /\ response' = "Invalid board state"
          ELSE /\ inflight' = [inflight EXCEPT ![r] = q]
               /\ response' = response
    /\ UNCHANGED <<game, user, clientVars, callVars, sessionVars>>

\* `await User.findById(req.userId)` of either route.
LoadUser(r) ==
    /\ inflight[r].stage = "saved"
    /\ inflight' = [inflight EXCEPT ![r] = [inflight[r] EXCEPT !.stage = "userLoaded"] @@ [userDoc |-> user]]
    /\ UNCHANGED <<game, response, user, clientVars, callVars, sessionVars>>

\* The statistics update on the loaded user, its save and the answer.
SaveUser(r) ==
    /\ inflight[r].stage = "userLoaded"
    /\ LET q == inflight[r]
           stats == IF q.kind = "complete"
                    THEN completeStats(q.userDoc, q.finalWinner)
                    ELSE updateStats(q.userDoc, q.gameResult)
           message == IF q.kind = "complete"
                      THEN "Game completed and match record saved"
                      ELSE "Move made successfully"
       IN /\ user' = saveUser(user, q.userDoc, stats)
          /\ inflight' = [inflight EXCEPT ![r] = answered(q, message, TRUE)]
          /\ response' = message
    /\ UNCHANGED <<game, clientVars, callVars, sessionVars>>

\* A game prepared by direct calls of makeMove before any request arrives.
Setup(player, i) ==
    /\ \A r \in Requests : inflight[r] = idle
    /\ Len(game.moves) < MaxSetup
    /\ MakeMove(player, i)

OverlapNext ==
    \/ \E player \in Marks, i \in Cells : Setup(player, i)
    \/ \E r \in Requests, userId \in Users, position \in PositionInputs : MoveReceive(r, userId, position)
    \/ \E r \in Requests : MoveApply(r)
    \/ \E r \in Requests, validBoard \in BOOLEAN, finalWinner \in {"X", "O", "draw"} :
          CompleteReceive(r, validBoard, finalWinner)
    \/ \E r \in Requests : LoadUser(r)
    \/ \E r \in Requests : SaveUser(r)

SpecOverlap == Init /\ [][OverlapNext]_vars

(***************************************************************************)
(* Client actions.                                                         *)
(***************************************************************************)
\* The state of a committed render.
commitState(n, pending) ==
    /\ board' = n.board
    /\ currentPlayer' = n.currentPlayer
    /\ winner' = n.winner
    /\ winningSquares' = n.winningSquares
    /\ isDraw' = n.isDraw
    /\ gameMode' = n.gameMode
    /\ aiDifficulty' = n.aiDifficulty
    /\ moves' = n.moves
    /\ aiTimer' = n.aiTimer
    /\ pendingEffects' = pending

Commit(n, pending) ==
    /\ commitState(n, pending)
    /\ UNCHANGED <<serverVars, callVars, requestVars, sessionVars>>

\* A click on square index: the Square's guard, then handleClick.
UserClick(index) ==
    LET R == clientState
    IN IF (R.winner # null \/ R.isDraw) \/ R.board[index] # null
       THEN UNCHANGED vars
       ELSE Commit(discreteEvent(handleClick(R, R, index), R, pendingEffects, TRUE), {})

\* The Restart Game button.
Restart ==
    LET R == clientState
    IN Commit(discreteEvent(resetGame(R), R, pendingEffects, TRUE), {})

\* A mode button: setGameMode(mode); resetGame().
SetGameMode(mode) ==
    LET R == clientState
    IN Commit(discreteEvent([resetGame(R) EXCEPT !.gameMode = mode], R, pendingEffects, TRUE), {})

\* The difficulty select, shown in AI mode.
SetAiDifficulty(difficulty) ==
    /\ gameMode = "ai"
    /\ difficulty # aiDifficulty
    /\ LET R == clientState
       IN Commit(discreteEvent([R EXCEPT !.aiDifficulty = difficulty], R, pendingEffects, FALSE), {})

\* The AI timeout fires; its effects are left pending.
AIMove(strategic, randomIndex, bounded) ==
    /\ aiTimer.armed
    /\ randomIndex \in randomIndexes(aiTimer.board)
    /\ drawsIndex(aiTimer, strategic) \/ randomIndex = 0
    /\ aiTimer.aiDifficulty \in {"easy", "hard"} => strategic
    /\ LET R == clientState
           aiMove == aiMoveOf(aiTimer, strategic, randomIndex)
           n == aiCallback(R, aiTimer, aiMove)
       IN /\ (bounded /\ drawsIndex(aiTimer, strategic)) => inOpening(moves, aiMove)
          /\ Commit(n, pendingEffects \cup
                       (IF n.board # R.board \/ n.moves # R.moves
                        THEN changedEffects(R, n, TRUE) ELSE {}))

\* The deferred passive effects of the last commit run.
FlushEffects ==
    /\ pendingEffects # {}
    /\ LET R == clientState
           n == runEffects(R, R, pendingEffects)
       IN Commit(n, changedEffects(R, n, FALSE))

ClientNext ==
    \/ \E index \in Cells : inOpening(moves, index) /\ UserClick(index)
    \/ Restart
    \/ \E mode \in {"human", "ai"} : SetGameMode(mode)
    \/ \E difficulty \in {"easy", "medium", "hard"} : SetAiDifficulty(difficulty)
    \/ \E strategic \in BOOLEAN, randomIndex \in 0..8 : AIMove(strategic, randomIndex, TRUE)
    \/ FlushEffects

\* The AI timeout of components/Game.jsx fires.  Its handleClick, effects and
\* resetGame read as those of the Game component above.
AIMoveJsx(strategic, randomIndex) ==
    /\ aiTimer.armed
    /\ randomIndex \in randomIndexes(aiTimer.board)
    /\ aiTimer.aiDifficulty \in {"easy", "hard"} => strategic
    /\ LET R == clientState
           aiMove == aiMoveOfJsx(aiTimer, strategic, randomIndex)
           n == aiCallback(R, aiTimer, aiMove)
       IN /\ inOpening(moves, aiMove)
          /\ Commit(n, pendingEffects \cup
                       (IF n.board # R.board \/ n.moves # R.moves
                        THEN changedEffects(R, n, TRUE) ELSE {}))

(***************************************************************************)
(* Specifications.                                                         *)
(***************************************************************************)
SpecServer == Init /\ [][ServerNext]_vars

SpecClient == Init /\ [][ClientNext]_vars

\* The armed timeout of the AI effect elapses: its callback runs, which is
\* the step AIMove and leaves no timeout armed.
TimeoutElapses == aiTimer.armed /\ aiTimer' = noTimer

\* The client whose armed AI timeout eventually fires and whose deferred
\* effects eventually run.
SpecClientFair ==
    /\ Init
    /\ [][ClientNext]_vars
    /\ WF_aiTimer(TimeoutElapses)
    /\ WF_vars(FlushEffects)

\* Server and client share no state and the client never calls the move
\* route: a behaviour of Spec runs one of the two programs.
serverUntouched == game = newGame("u1", "human", null) /\ response = "none"

clientUntouched ==
    /\ board = initializeBoard /\ currentPlayer = "X" /\ winner = null
    /\ winningSquares = <<>> /\ ~isDraw /\ gameMode = "human"
    /\ aiDifficulty = "medium" /\ moves = <<>> /\ aiTimer = noTimer
    /\ pendingEffects = {}

Next ==
    \/ clientUntouched /\ ServerNext
    \/ serverUntouched /\ ClientNext

Spec == Init /\ [][Next]_vars

\* A legal move of the human player X: X's turn, an empty square, no line
\* complete and the board not full.
legalMove(index) ==
    /\ currentPlayer = "X"
    /\ board[index] = null
    /\ checkWinner(board).player = null
    /\ ~isFull(board)

\* The component after "vs AI" and the difficulty "hard" were selected.
InitHard ==
    /\ game = newGame("u1", "human", null)
    /\ response = "none"
    /\ board = initializeBoard
    /\ currentPlayer = "X"
    /\ winner = null
    /\ winningSquares = <<>>
    /\ isDraw = FALSE
    /\ gameMode = "ai"
    /\ aiDifficulty = "hard"
    /\ moves = <<>>
    /\ aiTimer = noTimer
    /\ pendingEffects = {}
    /\ arg = initializeBoard
    /\ returned = nothingReturned
    /\ requestsIdle
    /\ sessionFresh

\* Hard mode of the Game component: X plays legal moves, O is the engine's.
NextStrong ==
    \/ \E index \in Cells : legalMove(index) /\ UserClick(index)
    \/ Restart
    \/ \E strategic \in BOOLEAN, randomIndex \in 0..8 : AIMove(strategic, randomIndex, FALSE)
    \/ FlushEffects

SpecStrong == InitHard /\ [][NextStrong]_vars

\* Hard mode of components/Game.jsx: X plays legal moves, O is the engine's.
NextJsx ==
    \/ \E index \in Cells : legalMove(index) /\ inOpening(moves, index) /\ UserClick(index)
    \/ Restart
    \/ \E strategic \in BOOLEAN, randomIndex \in 0..8 : AIMoveJsx(strategic, randomIndex)
    \/ FlushEffects

SpecJsx == InitHard /\ [][NextJsx]_vars

(***************************************************************************)
(* Direct calls of the rules on every board, reachable in play or not.     *)
(***************************************************************************)
AllBoards == [Cells -> Marks \cup {null}]

InitBoards ==
    /\ game = newGame("u1", "human", null)
    /\ response = "none"
    /\ board = initializeBoard
    /\ currentPlayer = "X"
    /\ winner = null
    /\ winningSquares = <<>>
    /\ isDraw = FALSE
    /\ gameMode = "human"
    /\ aiDifficulty = "medium"
    /\ moves = <<>>
    /\ aiTimer = noTimer
    /\ pendingEffects = {}
    /\ arg \in AllBoards
    /\ returned = nothingReturned
    /\ requestsIdle
    /\ sessionFresh

\* The three checkWinner functions called on the board.
CallCheckWinner ==
    /\ returned' = [op |-> "checkWinner",
                    model |-> modelCheckWinner(arg),
                    component |-> checkWinner(arg),
                    jsx |-> checkWinnerJsx(arg)]
    /\ UNCHANGED <<serverVars, clientVars, requestVars, arg, sessionVars>>

\* The winner/draw effect of a render of the board, and isDrawGame.
CallWinnerEffect ==
    /\ LET R == [clientState EXCEPT !.board = arg]
       IN returned' = [op |-> "winnerEffect",
                       state |-> winnerEffect(R, R),
                       isDrawGame |-> isDrawGame(arg)]
    /\ UNCHANGED <<serverVars, clientVars, requestVars, arg, sessionVars>>

\* makeMove placing the mark of cell i as the last mark of the board.
CallMakeMove(i) ==
    /\ arg[i] # null
    /\ LET g == [game EXCEPT !.board = [arg EXCEPT ![i] = null], !.currentPlayer = arg[i]]
       IN returned' = [op |-> "makeMove", result |-> makeMove(g, arg[i], Num(i))]
    /\ UNCHANGED <<serverVars, clientVars, requestVars, arg, sessionVars>>

\* One call on each board.
NextBoards ==
    /\ returned = nothingReturned
    /\ \/ CallCheckWinner
       \/ CallWinnerEffect
       \/ \E i \in Cells : CallMakeMove(i)

SpecBoards == InitBoards /\ [][NextBoards]_vars

(***************************************************************************)
(* Scenario B: the server driven by moves that fill the board to a given   *)
(* final position, any cell next.                                          *)
(***************************************************************************)
boardOf(cells) == [i \in Cells |-> cells[i + 1]]

\* The final position as the scenario gives it, and with cell 3 held by X.
ScenarioBStated == boardOf(<<"X", "O", "X", "O", "X", "O", "O", "X", "O">>)
ScenarioBFiveX == boardOf(<<"X", "O", "X", "X", "X", "O", "O", "X", "O">>)

\* makeMove called with the mark the final position has at cell i.
ScenarioMove(final, i) ==
    /\ game.board[i] = null
    /\ LET r == makeMove(game, final[i], Num(i))
       IN /\ game' = r.game
          /\ response' = IF r.error = "none" THEN "Move made successfully" ELSE r.error
    /\ UNCHANGED <<clientVars, callVars, requestVars, sessionVars>>

NextScenarioB ==
    \E final \in {ScenarioBStated, ScenarioBFiveX}, i \in Cells : ScenarioMove(final, i)

SpecScenarioB == Init /\ [][NextScenarioB]_vars

(***************************************************************************)
(* Direct calls of makeBestMove on every position of play that has an      *)
(* empty square, for either mark.                                          *)
(***************************************************************************)
hasLine(b, m) ==
    \E k \in 1..8 : \A j \in 1..3 : b[winningCombinations[k][j]] = m

\* The positions alternate play from the empty board reaches, X first, a
\* game ending with its first complete line.
LegalBoards ==
    {b \in AllBoards :
        LET d == Cardinality({i \in Cells : b[i] = "X"}) - Cardinality({i \in Cells : b[i] = "O"})
        IN /\ d \in {0, 1}
           /\ ~(hasLine(b, "X") /\ hasLine(b, "O"))
           /\ hasLine(b, "X") => d = 1
           /\ hasLine(b, "O") => d = 0}

InitSearch ==
    /\ game = newGame("u1", "human", null)
    /\ response = "none"
    /\ board = initializeBoard
    /\ currentPlayer = "X"
    /\ winner = null
    /\ winningSquares = <<>>
    /\ isDraw = FALSE
    /\ gameMode = "human"
    /\ aiDifficulty = "medium"
    /\ moves = <<>>
    /\ aiTimer = noTimer
    /\ pendingEffects = {}
    /\ arg \in {b \in LegalBoards : ~isFull(b)}
    /\ returned = nothingReturned
    /\ requestsIdle
    /\ sessionFresh

\* makeBestMove(arg, player).
CallMakeBestMove(player) ==
    /\ returned' = [op |-> "makeBestMove",
                    player |-> player,
                    move |-> makeBestMove(arg, player, 0)]
    /\ UNCHANGED <<serverVars, clientVars, requestVars, arg, sessionVars>>

\* One call on each position.
NextSearch ==
    /\ returned = nothingReturned
    /\ \E player \in Marks : CallMakeBestMove(player)

SpecSearch == InitSearch /\ [][NextSearch]_vars

(***************************************************************************)
(* Direct calls of the three difficulties on every position of play, full  *)
(* and finished ones included: the switch of the AI timeout callback and   *)
(* the handleClick that follows it.                                        *)
(***************************************************************************)
InitTiers ==
    /\ game = newGame("u1", "human", null)
    /\ response = "none"
    /\ board = initializeBoard
    /\ currentPlayer = "X"
    /\ winner = null
    /\ winningSquares = <<>>
    /\ isDraw = FALSE
    /\ gameMode = "human"
    /\ aiDifficulty = "medium"
    /\ moves = <<>>
    /\ aiTimer = noTimer
    /\ pendingEffects = {}
    /\ arg \in LegalBoards
    /\ returned = nothingReturned
    /\ requestsIdle
    /\ sessionFresh

\* The timeout callback run for the board arg at the given difficulty.
CallAiMove(difficulty, strategic, randomIndex) ==
    /\ randomIndex \in randomIndexes(arg)
    /\ difficulty \in {"easy", "hard"} => strategic
    /\ LET R == [clientState EXCEPT !.board = arg, !.currentPlayer = "O",
                                    !.gameMode = "ai", !.aiDifficulty = difficulty]
           closure == [armed |-> TRUE, board |-> arg, currentPlayer |-> "O",
                       winner |-> null, isDraw |-> FALSE, aiDifficulty |-> difficulty]
       IN /\ drawsIndex(closure, strategic) \/ randomIndex = 0
          /\ \E aiMove \in {aiMoveOf(closure, strategic, randomIndex)} :
                returned' = [op |-> "aiMove",
                             aiDifficulty |-> difficulty,
                             move |-> aiMove,
                             state |-> aiCallback(R, closure, aiMove)]
    /\ UNCHANGED <<serverVars, clientVars, requestVars, arg, sessionVars>>

\* One call on each position.
NextTiers ==
    /\ returned = nothingReturned
    /\ \E difficulty \in {"easy", "medium", "hard"}, strategic \in BOOLEAN, randomIndex \in 0..8 :
          CallAiMove(difficulty, strategic, randomIndex)

SpecTiers == InitTiers /\ [][NextTiers]_vars

(***************************************************************************)
(* Queries: the server with the views of the last two GET /:gameId kept in *)
(* `returned`.                                                             *)
(***************************************************************************)
queriesAnswered == IF returned.op = "query" THEN returned.count ELSE 0

\* GET /:gameId handled from its arrival to its answer.
Query(userId) ==
    /\ queriesAnswered < MaxQueries
    /\ LET r == getRoute(game, userId)
       IN /\ game' = r.game
          /\ response' = r.message
          /\ returned' = [op |-> "query",
                          view |-> IF r.message = "game state"
                                   THEN getGameState(r.game) ELSE noView,
                          previous |-> IF returned.op = "query"
                                       THEN returned.view ELSE noView,
                          count |-> queriesAnswered + 1]
    /\ UNCHANGED <<clientVars, requestVars, arg, sessionVars>>

\* A move of the queried game.
QueriedMove(player, i) ==
    /\ \E k \in 1..MaxQueried : k <= 9 /\ OpeningOrder[k] = i
    /\ MakeMove(player, i)

QueryNext ==
    \/ \E player \in Marks, i \in Cells : QueriedMove(player, i)
    \/ \E userId \in Users : AbandonRequest(userId)
    \/ \E userId \in Users : Query(userId)

SpecQuery == Init /\ [][QueryNext]_vars

(***************************************************************************)
(* Creation: one POST /create with a body drawn from CreateBodies, sent to *)
(* a server that holds no game yet.                                        *)
(***************************************************************************)
GameTypeInputs == {"human", "ai", "AI", "computer", "", undefined, null}
DifficultyInputs == {"easy", "medium", "hard", "weak", "strong", "", undefined, null}
CreateBodies ==
    [userId : Users, gameType : GameTypeInputs, aiDifficulty : DifficultyInputs]

InitCreate ==
    /\ game = noGame
    /\ response = "none"
    /\ board = initializeBoard
    /\ currentPlayer = "X"
    /\ winner = null
    /\ winningSquares = <<>>
    /\ isDraw = FALSE
    /\ gameMode = "human"
    /\ aiDifficulty = "medium"
    /\ moves = <<>>
    /\ aiTimer = noTimer
    /\ pendingEffects = {}
    /\ arg \in CreateBodies
    /\ returned = nothingReturned
    /\ requestsIdle
    /\ sessionFresh

\* POST /create with the body arg, from its arrival to its answer.
CreateRequest ==
    /\ LET r == createRoute(game, arg.userId, arg.gameType, arg.aiDifficulty)
       IN /\ game' = r.game
          /\ response' = r.message
          /\ returned' = [op |-> "create",
                          view |-> IF r.message = "Game created successfully"
                                   THEN getGameState(r.game) ELSE noView]
    /\ UNCHANGED <<clientVars, requestVars, arg, sessionVars>>

NextCreate == CreateRequest

SpecCreate == InitCreate /\ [][NextCreate]_vars

(***************************************************************************)
(* A session of a logged-in user in the game of two humans: the games      *)
(* follow the scripts of SessionScripts, each is saved when it ends and    *)
(* restarted by the user or by the countdown.  The interval's tick and the *)
(* save's response are commits whose passive effects change no state; they *)
(* are taken with their effects.                                           *)
(***************************************************************************)
SessionScripts ==
    { <<0, 3, 1, 4, 2>>, <<0, 3, 1, 4, 8, 5>>, <<0, 1, 2, 4, 3, 5, 7, 6, 8>> }

positionsOf(history) == [k \in 1..Len(history) |-> history[k].position]

\* The click at index continues one of the scripts.
inScript(history, index) ==
    \E script \in SessionScripts :
        /\ Len(history) < Len(script)
        /\ SubSeq(script, 1, Len(history)) = positionsOf(history)
        /\ script[Len(history) + 1] = index

\* winner || isDraw of render R.
finishedOf(R) == R.winner # null \/ R.isDraw

\* The save effect of render R: the 100 ms timeouts pending afterwards.  Each
\* closes over the render's board, moves and matchSaved.
saveEffect(R, saved, pending, gameNo) ==
    IF finishedOf(R) /\ ~saved /\ Len(R.moves) > 0
    THEN Append(pending,
                [game |-> gameNo, board |-> R.board, moves |-> R.moves,
                 winner |-> IF R.winner # null THEN R.winner ELSE "draw",
                 winningLine |-> IF R.winner # null THEN R.winningSquares ELSE <<>>,
                 matchSaved |-> saved])
    ELSE pending

\* if (autoRestartTimer) { clearInterval(autoRestartTimer); setAutoRestartTimer(null); }
\* of the resetGame that closed over `closure`: the state afterwards.
resetTimer(closure, current) == IF closure # noIntervalId THEN noIntervalId ELSE current

\* clearInterval(id)
clearInterval(interval, id) ==
    IF interval.armed /\ id # noIntervalId /\ interval.id = id THEN noInterval ELSE interval

\* The cleanup of the auto-restart effect, run when winner or isDraw changed:
\* it clears the interval its effect started.
cleanup(interval, R, n) ==
    IF R.winner # n.winner \/ R.isDraw # n.isDraw THEN noInterval ELSE interval

\* A click on square index: handleClick, the detection effect, and for a game
\* that ended the save effect and the auto-restart effect.
SessionClick(index) ==
    /\ gameMode = "human"
    /\ Len(saves.finished) < MaxGames
    /\ inScript(moves, index)
    /\ LET R == clientState
           n == discreteEvent(handleClick(R, R, index), R, pendingEffects, TRUE)
           ended == finishedOf(n) /\ ~finishedOf(R)
           gameNo == Len(saves.finished) + 1
           starts == ended /\ autoRestartTimer = noIntervalId
       IN /\ ~(finishedOf(R) \/ R.board[index] # null)
          /\ commitState(n, {})
          /\ matchSaved' = matchSaved
          /\ autoRestartTimer' = IF starts THEN timers.started + 1 ELSE autoRestartTimer
          /\ autoRestartCountdown' = IF starts THEN 10 ELSE autoRestartCountdown
          /\ timers' = [timers EXCEPT
                          !.timeouts = IF ended THEN saveEffect(n, matchSaved, @, gameNo)
                                       ELSE @,
                          !.interval = IF starts
                                       THEN [armed |-> TRUE, id |-> timers.started + 1,
                                             autoRestartTimer |-> autoRestartTimer]
                                       ELSE @,
                          !.started = IF starts THEN @ + 1 ELSE @]
          /\ saves' = IF ended
                      THEN [saves EXCEPT !.finished =
                              Append(@, [game |-> gameNo, board |-> n.board,
                                         moves |-> n.moves,
                                         winner |-> IF n.winner # null THEN n.winner
                                                    ELSE "draw"])]
                      ELSE saves
    /\ UNCHANGED <<serverVars, callVars, requestVars, auth>>

\* The Restart Game button: resetGame of the current render.
SessionRestart ==
    /\ gameMode = "human"
    /\ LET R == clientState
           n == discreteEvent(resetGame(R), R, pendingEffects, TRUE)
       IN /\ commitState(n, {})
          /\ timers' = [timers EXCEPT !.interval =
                          cleanup(clearInterval(@, autoRestartTimer), R, n)]
    /\ matchSaved' = FALSE
    /\ autoRestartTimer' = resetTimer(autoRestartTimer, autoRestartTimer)
    /\ autoRestartCountdown' = 0
    /\ UNCHANGED <<serverVars, callVars, requestVars, saves, auth>>

\* A tick of the auto-restart interval: the updater of the countdown, which at
\* expiry clears the interval and calls the resetGame the interval closed over.
SessionTick ==
    /\ timers.interval.armed
    /\ IF autoRestartCountdown <= 1
       THEN LET R == clientState
                n == discreteEvent(resetGame(R), R, pendingEffects, TRUE)
            IN /\ commitState(n, {})
               /\ matchSaved' = FALSE
               /\ autoRestartTimer' =
                     resetTimer(timers.interval.autoRestartTimer, autoRestartTimer)
               /\ autoRestartCountdown' = 0
               /\ timers' = [timers EXCEPT !.interval =
                               cleanup(clearInterval(@, @.id), R, n)]
       ELSE /\ autoRestartCountdown' = autoRestartCountdown - 1
            /\ UNCHANGED <<clientVars, matchSaved, autoRestartTimer, timers>>
    /\ UNCHANGED <<serverVars, callVars, requestVars, saves, auth>>

\* The k-th pending save timeout fires: saveMatchRecord of its render.
SaveTimeout(k) ==
    /\ k \in 1..Len(timers.timeouts)
    /\ LET closure == timers.timeouts[k]
           rest == [j \in 1..(Len(timers.timeouts) - 1) |->
                      IF j < k THEN timers.timeouts[j] ELSE timers.timeouts[j + 1]]
       IN IF closure.matchSaved
          THEN /\ timers' = [timers EXCEPT !.timeouts = rest]
               /\ saves' = saves
          ELSE /\ timers' = [timers EXCEPT !.timeouts = rest, !.requests = @ + 1]
               /\ saves' = [saves EXCEPT !.submitted =
                              Append(@, [game |-> closure.game, board |-> closure.board,
                                         moves |-> closure.moves,
                                         winner |-> closure.winner])]
    /\ UNCHANGED <<serverVars, clientVars, callVars, requestVars,
                   matchSaved, autoRestartTimer, autoRestartCountdown, auth>>

\* A save request is answered with success: setMatchSaved(true).
SaveResponse ==
    /\ timers.requests > 0
    /\ timers' = [timers EXCEPT !.requests = @ - 1]
    /\ matchSaved' = TRUE
    /\ UNCHANGED <<serverVars, clientVars, callVars, requestVars,
                   autoRestartTimer, autoRestartCountdown, saves, auth>>

SessionNext ==
    \/ \E index \in Cells : SessionClick(index)
    \/ SessionRestart
    \/ SessionTick
    \/ \E k \in 1..MaxGames : SaveTimeout(k)
    \/ SaveResponse

SpecSession == Init /\ [][SessionNext]_vars

\* A mode button during the session: setGameMode(mode); resetGame().
SessionSetGameMode(mode) ==
    /\ LET R == clientState
           n == discreteEvent(resetGame([R EXCEPT !.gameMode = mode]), R,
                              pendingEffects, TRUE)
       IN /\ commitState(n, {})
          /\ timers' = [timers EXCEPT !.interval =
                          cleanup(clearInterval(@, autoRestartTimer), R, n)]
    /\ matchSaved' = FALSE
    /\ autoRestartTimer' = resetTimer(autoRestartTimer, autoRestartTimer)
    /\ autoRestartCountdown' = 0
    /\ UNCHANGED <<serverVars, callVars, requestVars, saves, auth>>

\* The session with the mode buttons.
ResetNext ==
    \/ SessionNext
    \/ \E mode \in {"human", "ai"} : SessionSetGameMode(mode)

SpecReset == Init /\ [][ResetNext]_vars

(***************************************************************************)
(* The search on its working board: makeBestMove(arg, player) for each     *)
(* position of play that is not full.                                      *)
(***************************************************************************)
CallMakeBestMoveInPlace(player) ==
    /\ \E result \in {makeBestMoveInPlace(arg, player, 0)} :
          returned' = [op |-> "makeBestMove", player |-> player, move |-> result.move,
                       board |-> result.board, boardCopy |-> result.boardCopy,
                       search |-> result.search]
    /\ UNCHANGED <<serverVars, clientVars, requestVars, arg, sessionVars>>

NextInPlace ==
    /\ returned = nothingReturned
    /\ \E player \in Marks : CallMakeBestMoveInPlace(player)

SpecInPlace == InitSearch /\ [][NextInPlace]_vars

(***************************************************************************)
(* One game played on both sides: each move the model accepts is also      *)
(* clicked in the client (two humans), whose effects settle.               *)
(***************************************************************************)
PairMove(player, i) ==
    /\ inOpening(game.moves, i)
    /\ LET r == makeMove(game, player, Num(i))
           R == clientState
       IN /\ r.error = "none"
          /\ game' = r.game
          /\ response' = "Move made successfully"
          /\ commitState(discreteEvent(handleClick(R, R, i), R, pendingEffects, TRUE), {})
    /\ UNCHANGED <<callVars, requestVars, sessionVars>>

NextPair == \E player \in Marks, i \in Cells : PairMove(player, i)

SpecPair == Init /\ [][NextPair]_vars

(***************************************************************************)
(* The AuthProvider under its requests: login, register, verifyToken,      *)
(* logout, refreshUserData, updateProfile and clearError, each response    *)
(* handled when it arrives, of success or not.                             *)
(***************************************************************************)
InitAuth ==
    /\ game = newGame("u1", "human", null)
    /\ response = "none"
    /\ board = initializeBoard
    /\ currentPlayer = "X"
    /\ winner = null
    /\ winningSquares = <<>>
    /\ isDraw = FALSE
    /\ gameMode = "human"
    /\ aiDifficulty = "medium"
    /\ moves = <<>>
    /\ aiTimer = noTimer
    /\ pendingEffects = {}
    /\ arg = initializeBoard
    /\ returned = nothingReturned
    /\ requestsIdle
    /\ matchSaved = FALSE
    /\ autoRestartTimer = noIntervalId
    /\ autoRestartCountdown = 0
    /\ timers = [interval |-> noInterval, timeouts |-> <<>>, requests |-> 0, started |-> 0]
    /\ saves = [finished |-> <<>>, submitted |-> <<>>]
    /\ \E stored \in {null, "t1"} : auth = mounted(stored)

\* Nothing but the provider changes.
authOnly ==
    UNCHANGED <<serverVars, clientVars, callVars, requestVars, matchSaved,
                autoRestartTimer, autoRestartCountdown, timers, saves>>

\* The request is sent unless MaxRequests are awaiting their response.
sends(request) == Cardinality(auth.requests \cup {request}) <= MaxRequests

\* login up to its fetch.
Login ==
    /\ sends([op |-> "login", token |-> null])
    /\ auth' = [auth EXCEPT !.state = authReducer(@, [type |-> "LOGIN_START"]),
                            !.requests = @ \cup {[op |-> "login", token |-> null]}]
    /\ authOnly

\* register up to its fetch.
Register ==
    /\ sends([op |-> "register", token |-> null])
    /\ auth' = [auth EXCEPT !.state = authReducer(@, [type |-> "LOGIN_START"]),
                            !.requests = @ \cup {[op |-> "register", token |-> null]}]
    /\ authOnly

\* login or register from the response on; a rejected fetch is the catch branch.
SignInResponse(request, ok) ==
    /\ request \in auth.requests
    /\ request.op \in {"login", "register"}
    /\ LET token == IF request.op = "login" THEN "t1" ELSE "t2"
       IN auth' = IF ok
                  THEN [auth EXCEPT
                          !.localStorage = token,
                          !.state = authReducer(@, [type |-> "LOGIN_SUCCESS",
                                                    payload |-> [user |-> userOf(token),
                                                                 token |-> token]]),
                          !.requests = @ \ {request}]
                  ELSE [auth EXCEPT
                          !.state = authReducer(@, [type |-> "LOGIN_FAILURE",
                                                    payload |-> "failed"]),
                          !.requests = @ \ {request}]
    /\ authOnly

\* verifyToken from the response on.
VerifyResponse(request, ok) ==
    /\ request \in auth.requests
    /\ request.op = "verify"
    /\ auth' = IF ok
               THEN [auth EXCEPT
                       !.state = authReducer(@, [type |-> "LOGIN_SUCCESS",
                                                 payload |-> [user |-> userOf(request.token),
                                                              token |-> request.token]]),
                       !.requests = @ \ {request}]
               ELSE [auth EXCEPT
                       !.localStorage = null,
                       !.state = authReducer(@, [type |-> "LOGOUT"]),
                       !.requests = @ \ {request}]
    /\ authOnly

\* logout.
Logout ==
    /\ auth' = [auth EXCEPT !.localStorage = null,
                            !.state = authReducer(@, [type |-> "LOGOUT"])]
    /\ authOnly

\* refreshUserData up to the fetch of apiCall, which carries state.token.
RefreshUserData ==
    /\ auth.state.token # null
    /\ sends([op |-> "profile", token |-> auth.state.token])
    /\ auth' = [auth EXCEPT !.requests =
                  @ \cup {[op |-> "profile", token |-> auth.state.token]}]
    /\ authOnly

\* updateProfile up to the fetch of apiCall.
UpdateProfile ==
    /\ sends([op |-> "update", token |-> auth.state.token])
    /\ auth' = [auth EXCEPT !.requests =
                  @ \cup {[op |-> "update", token |-> auth.state.token]}]
    /\ authOnly

\* refreshUserData or updateProfile from the response on: UPDATE_USER for a
\* success, which the server gives to a request that carried a token.
ProfileResponse(request, ok) ==
    /\ request \in auth.requests
    /\ request.op \in {"profile", "update"}
    /\ ok => request.token # null
    /\ auth' = IF ok
               THEN [auth EXCEPT
                       !.state = authReducer(@, [type |-> "UPDATE_USER",
                                                 payload |-> userOf(request.token)]),
                       !.requests = @ \ {request}]
               ELSE [auth EXCEPT !.requests = @ \ {request}]
    /\ authOnly

\* clearError.
ClearError ==
    /\ auth' = [auth EXCEPT !.state = authReducer(@, [type |-> "CLEAR_ERROR"])]
    /\ authOnly

AuthRequests ==
    {[op |-> op, token |-> token] :
        op \in {"login", "register", "verify", "profile", "update"},
        token \in {null, "t1", "t2"}}

NextAuth ==
    \/ Login
    \/ Register
    \/ \E request \in AuthRequests, ok \in BOOLEAN : SignInResponse(request, ok)
    \/ \E request \in AuthRequests, ok \in BOOLEAN : VerifyResponse(request, ok)
    \/ Logout
    \/ RefreshUserData
    \/ UpdateProfile
    \/ \E request \in AuthRequests, ok \in BOOLEAN : ProfileResponse(request, ok)
    \/ ClearError

SpecAuth == InitAuth /\ [][NextAuth]_vars

(***************************************************************************)
(* Claims.                                                                 *)
(***************************************************************************)

\* C1: in hard mode, with X playing legal moves and every O mark placed by
\* makeBestMove(board, 'O'), no board ever holds a complete line of X and the
\* winner is never X.
StrongNeverLoses ==
    /\ checkWinner(board).player # "X"
    /\ winner # "X"

\* C1 witness: a game played to the ninth mark against the engine, ending in a draw.
StrongDrawReached ==
    /\ gameMode = "ai" /\ aiDifficulty = "hard"
    /\ isDraw /\ Len(moves) = 9

\* C2 as stated: in hard mode of components/Game.jsx no game ends with winner X.
JsxHardNeverLoses ==
    (gameMode = "ai" /\ aiDifficulty = "hard") => winner # "X"

\* The cells of b that hold mark m, and X cells minus O cells.
count(b, m) == Cardinality({i \in Cells : b[i] = m})

lead(b) == count(b, "X") - count(b, "O")

\* C3: on the server and in the client, whatever moves were attempted, the
\* number of X cells equals the number of O cells or exceeds it by exactly 1.
CountInvariant ==
    /\ lead(game.board) \in {0, 1}
    /\ lead(board) \in {0, 1}

\* C3 witness: a server game played to the full board, five X and four O.
CountFullBoard ==
    /\ count(game.board, "X") = 5
    /\ count(game.board, "O") = 4

\* C4 as stated: the turn is O exactly when the counts are equal and the game
\* is not terminal, and X in every other state.
TurnAsStated ==
    game.currentPlayer = "O" <=> (lead(game.board) = 0 /\ game.status # "completed")

\* C4 amended: in a game that is not completed the turn is X exactly when the
\* counts are equal and O when X leads by one; in a completed game the turn
\* stays with the player of the final move.
TurnInvariant ==
    /\ game.status # "completed" => (game.currentPlayer = "X" <=> lead(game.board) = 0)
    /\ game.status = "completed" => (game.currentPlayer = "X" <=> lead(game.board) = 1)

\* C4 witness: a game O won, the counts equal and the turn left with O.
TurnAfterOWin ==
    /\ game.status = "completed"
    /\ game.result.winner = "O"
    /\ game.currentPlayer = "O"

\* C5: in an active game a move of the player to move onto an occupied cell
\* throws 'Position already occupied' and leaves the document as it was; in the
\* client handleClick on an occupied square changes nothing.
OccupiedCellRejected ==
    /\ \A i \in Cells :
          (game.status = "active" /\ game.board[i] # null) =>
             makeMove(game, game.currentPlayer, Num(i)) =
                [game |-> game, error |-> "Position already occupied"]
    /\ \A i \in Cells :
          board[i] # null => handleClick(clientState, clientState, i) = clientState

\* C5 witness: an active game with marks on the board answered 'Position
\* already occupied'.
OccupiedAnswered ==
    /\ response = "Position already occupied"
    /\ game.status = "active"
    /\ Len(game.moves) >= 2

\* C6 as stated: in an active game every move of the player not to move throws
\* 'Not your turn', on an occupied cell too, and leaves the document as it was.
WrongTurnBeforeOccupied ==
    \A i \in Cells :
       game.status = "active" =>
          makeMove(game, otherPlayer(game.currentPlayer), Num(i)) =
             [game |-> game, error |-> "Not your turn"]

\* C6 amended: the checks run in the order not active, position occupied, not
\* your turn: in an active game a move of the player not to move throws 'Not
\* your turn' on an empty cell and 'Position already occupied' on an occupied
\* one, and leaves the document as it was.
WrongTurnAfterOccupied ==
    \A i \in Cells :
       game.status = "active" =>
          makeMove(game, otherPlayer(game.currentPlayer), Num(i)) =
             [game |-> game,
              error |-> IF game.board[i] # null
                        THEN "Position already occupied" ELSE "Not your turn"]

\* C6 witness: an active game with marks on the board answered 'Not your turn'.
WrongTurnAnswered ==
    /\ response = "Not your turn"
    /\ game.status = "active"
    /\ Len(game.moves) >= 2

\* C7: on a game that is completed or abandoned makeMove throws 'Game is not
\* active' for every player and every position and leaves the document as it was.
NotActiveRejected ==
    \A player \in Marks, position \in PositionInputs :
       game.status # "active" =>
          makeMove(game, player, position) = [game |-> game, error |-> "Game is not active"]

\* C7 witness: an abandoned game with an empty cell answered 'Game is not active'.
NotActiveAnswered ==
    /\ response = "Game is not active"
    /\ game.status = "abandoned"
    /\ ~isFull(game.board)

\* C8 as stated: the move route answers 'Invalid position' to every position
\* that is not an integer 0..8, and leaves the document as it was.
InvalidPositionRejected ==
    \A userId \in Users, position \in PositionInputs :
       ~isIndex(position) =>
          moveRoute(game, userId, position) = [game |-> game, message |-> "Invalid position"]

\* An accepted move of the server: one empty cell takes the mark of the player
\* to move, one entry is appended.
serverMove ==
    \E i \in Cells :
       /\ game.board[i] = null
       /\ game'.board = [game.board EXCEPT ![i] = game.currentPlayer]
       /\ game'.moves = Append(game.moves, [player |-> game.currentPlayer, position |-> i])

\* An accepted move of the client.
clientMove ==
    \E i \in Cells :
       /\ board[i] = null
       /\ board' = [board EXCEPT ![i] = currentPlayer]
       /\ moves' = Append(moves, [player |-> currentPlayer, position |-> i])

\* C9: every step that changes a board or a move history, a reset of the
\* client apart, changes exactly one cell from empty to the mover's mark and
\* appends exactly one entry, that player and that position.
AcceptedMoveFrame ==
    [][ /\ (game'.board # game.board \/ game'.moves # game.moves) => serverMove
        /\ (board' # board \/ moves' # moves) =>
              (clientMove \/ (board' = initializeBoard /\ moves' = <<>>)) ]_vars

\* C9 witness: the server answered a third accepted move.
AcceptedMoveAnswered ==
    /\ response = "Move made successfully"
    /\ Len(game.moves) = 3

\* The board after the first k moves of a history.
RECURSIVE replay(_, _)
replay(history, k) ==
    IF k = 0 THEN initializeBoard
    ELSE [replay(history, k - 1) EXCEPT ![history[k].position] = history[k].player]

\* The player whose move first completed a line, null if none did.
RECURSIVE completerFrom(_, _)
completerFrom(history, k) ==
    IF k > Len(history) THEN null
    ELSE IF checkWinner(replay(history, k)).player # null THEN history[k].player
    ELSE completerFrom(history, k + 1)

validLine(b, line, player) ==
    /\ \E k \in 1..8 : winningCombinations[k] = line
    /\ \A k \in 1..3 : b[line[k]] = player

\* C10 as stated: once a move completed a line the game is completed as a
\* win of the player who made that move, with a winning line that is one of
\* the eight and holds three marks of the winner.
WinnerCompletedLine ==
    /\ modelCheckWinner(game.board).player # null =>
          /\ game.status = "completed"
          /\ game.result.endReason = "win"
          /\ game.result.winner = game.moves[Len(game.moves)].player
          /\ validLine(game.board, game.result.winningLine, game.result.winner)
    /\ (pendingEffects = {} /\ checkWinner(board).player # null) =>
          /\ winner = completerFrom(moves, 1)
          /\ validLine(board, winningSquares, winner)

\* The eight lines in the order of the rules: rows, columns, diagonals.
WinLines ==
    << <<0, 1, 2>>, <<3, 4, 5>>, <<6, 7, 8>>,
       <<0, 3, 6>>, <<1, 4, 7>>, <<2, 5, 8>>,
       <<0, 4, 8>>, <<2, 4, 6>> >>

completeLines(b) ==
    {k \in 1..8 : b[WinLines[k][1]] # null /\ b[WinLines[k][1]] = b[WinLines[k][2]]
                                           /\ b[WinLines[k][1]] = b[WinLines[k][3]]}

lineComplete(b) == completeLines(b) # {}

\* C11: every board classifies as exactly one of in progress, win and draw,
\* in makeMove and in the component's winner/draw effect alike; it is a draw
\* exactly when it is full and holds no complete line, and a win exactly
\* when it holds a complete line, a full board included.
ClassificationExclusive ==
    /\ returned.op = "makeMove" =>
          LET g == returned.result.game
              win == g.status = "completed" /\ g.result.endReason = "win" /\ g.result.winner \in Marks
              draw == g.status = "completed" /\ g.result.endReason = "draw" /\ g.result.winner = "draw"
              inProgress == g.status = "active" /\ g.result.endReason = null /\ g.result.winner = null
          IN /\ returned.result.error = "none"
             /\ g.board = arg
             /\ Cardinality({c \in {"win", "draw", "inProgress"} :
                               \/ c = "win" /\ win
                               \/ c = "draw" /\ draw
                               \/ c = "inProgress" /\ inProgress}) = 1
             /\ draw <=> (isFull(arg) /\ ~lineComplete(arg))
             /\ win <=> lineComplete(arg)
    /\ returned.op = "winnerEffect" =>
          LET win == returned.state.winner # null
              draw == returned.state.isDraw
          IN /\ ~(win /\ draw)
             /\ draw <=> (isFull(arg) /\ ~lineComplete(arg))
             /\ win <=> lineComplete(arg)
             /\ returned.isDrawGame <=> (isFull(arg) /\ ~lineComplete(arg))

\* C11 witness: a full board whose last mark completed a line, classified a win.
FullBoardWin ==
    /\ returned.op = "makeMove"
    /\ isFull(arg)
    /\ lineComplete(arg)
    /\ returned.result.game.result.endReason = "win"

\* The first complete line of the rules' order with its mark, as [player, line].
firstLine(b) ==
    IF completeLines(b) = {} THEN [player |-> null, line |-> <<>>]
    ELSE LET k == CHOOSE k \in completeLines(b) : \A j \in completeLines(b) : k <= j
         IN [player |-> b[WinLines[k][1]], line |-> WinLines[k]]

\* C12: on every board the model's checkWinner and the two components'
\* checkWinner return the first complete line in the order rows, columns,
\* diagonals, with its mark, and nothing exactly when no line is complete.
FirstLineReturned ==
    returned.op = "checkWinner" =>
       /\ returned.model = [player |-> firstLine(arg).player, line |-> firstLine(arg).line]
       /\ returned.component = [player |-> firstLine(arg).player, squares |-> firstLine(arg).line]
       /\ returned.jsx = returned.component
       /\ (returned.model.player = null) <=> ~lineComplete(arg)

\* C12 witness: a board with complete lines of both marks, the later one of X.
SeveralLinesReturned ==
    /\ returned.op = "checkWinner"
    /\ arg[0] = "O" /\ arg[1] = "O" /\ arg[2] = "O"
    /\ arg[6] = "X" /\ arg[7] = "X" /\ arg[8] = "X"
    /\ returned.model.player = "O"

\* C13: once the status of the game is completed, no move attempt, no
\* DELETE request and no query changes the document: status, board, moves,
\* currentPlayer and result stay as they are.
CompletedIsTerminal ==
    [][game.status = "completed" => game' = game]_vars

\* C13 witness: a DELETE request was answered on a completed game.
CompletedGameAbandonAnswered ==
    /\ game.status = "completed"
    /\ response = "Game abandoned successfully"

isPrefix(s, t) == Len(s) <= Len(t) /\ SubSeq(t, 1, Len(s)) = s

\* The messages of a rejected move.
Rejections ==
    {"Game is not active", "Position already occupied", "Not your turn",
     "Invalid position", "You are not part of this game"}

\* C14: within one game every step leaves the move history a prefix of the new
\* one, on the server and in the client (whose reset starts a new game), and
\* a rejected move leaves it as it was.
HistoryAppendOnly ==
    [][ /\ isPrefix(game.moves, game'.moves)
        /\ response' \in Rejections => game'.moves = game.moves
        /\ isPrefix(moves, moves') \/ (moves' = <<>> /\ board' = initializeBoard) ]_vars

\* C14 witness: a move was rejected in a game with three moves in its history.
RejectedWithHistory ==
    /\ response \in Rejections
    /\ Len(game.moves) = 3

\* The board ends the game: a line is complete or no cell is empty.
gameOver(b) == lineComplete(b) \/ isFull(b)

\* The server's half of C15: makeMove.
serverTurnFlipsUnlessOver ==
    [][ Len(game'.moves) = Len(game.moves) + 1 =>
           (game'.currentPlayer # game.currentPlayer <=> ~gameOver(game'.board)) ]_vars

\* The client's half of C15: handleClick.
clientTurnFlipsUnlessOver ==
    [][ Len(moves') = Len(moves) + 1 =>
           (currentPlayer' # currentPlayer <=> ~gameOver(board')) ]_vars

\* C15 as stated: an accepted move, of makeMove or of handleClick, hands the
\* turn to the other mark exactly when the new board does not end the game,
\* and leaves it with the mover when it does.
TurnFlipsUnlessOver == serverTurnFlipsUnlessOver /\ clientTurnFlipsUnlessOver

\* Board b agrees with the final position on every mark it holds.
fillingOf(b, final) == \A i \in Cells : b[i] # null => b[i] = final[i]

\* The moves of a final position are accepted and end in a draw: every
\* unfinished filling of it has a next move that makeMove accepts, and the
\* game that reached it is completed as a draw.
playsToDraw(final) ==
    /\ (fillingOf(game.board, final) /\ ~isFull(game.board)) =>
          /\ game.status = "active"
          /\ \E i \in Cells :
                game.board[i] = null /\ makeMove(game, final[i], Num(i)).error = "none"
    /\ game.board = final =>
          /\ game.status = "completed"
          /\ game.result.winner = "draw"
          /\ game.result.endReason = "draw"

\* C16 as stated: the moves filling the board to X,O,X,O,X,O,O,X,O are
\* accepted and end the game as a draw.
ScenarioBStatedDraw == playsToDraw(ScenarioBStated)

\* C16 amended: the moves filling the board to X,O,X,X,X,O,O,X,O, five X and
\* four O without three in a row, are accepted and end the game as a draw.
ScenarioBFiveXDraw == playsToDraw(ScenarioBFiveX)

\* C16 witness: the board X,O,X,X,X,O,O,X,O was reached and the game is a draw.
ScenarioBFiveXReached ==
    /\ game.board = ScenarioBFiveX
    /\ game.result.winner = "draw"
    /\ Len(game.moves) = 9

\* The moveValue of the root loop for each empty square of the call's board.
moveValues == [i \in {j \in Cells : arg[j] = null} |-> moveValue(arg, returned.player, i)]

\* C20: on every position with an empty square makeBestMove returns the
\* lowest index among the empty squares whose minimax value is the highest.
LowestBestIndex ==
    returned.op = "makeBestMove" =>
       LET values == moveValues
           best == {i \in DOMAIN values : \A j \in DOMAIN values : values[j] <= values[i]}
       IN /\ returned.move \in best
          /\ \A i \in best : returned.move <= i

\* C20 witness: two squares share the highest value and the lower was returned.
TieBrokenByIndex ==
    /\ returned.op = "makeBestMove"
    /\ Cardinality({i \in Cells : arg[i] = null}) = 2
    /\ \E i \in Cells :
          /\ arg[i] = null
          /\ i > returned.move
          /\ moveValue(arg, returned.player, i) = moveValue(arg, returned.player, returned.move)

\* The search of makeBestMove with the `beta <= alpha` breaks removed.
RECURSIVE minimaxUnpruned(_, _, _, _), maximizeUnpruned(_, _, _, _, _), minimizeUnpruned(_, _, _, _, _)
minimaxUnpruned(b, player, depth, isMaximizing) ==
    LET w == checkWinner(b)
    IN IF w.player = player THEN 10 - depth
       ELSE IF w.player = otherPlayer(player) THEN depth - 10
       ELSE IF isDrawGame(b) THEN 0
       ELSE IF isMaximizing THEN maximizeUnpruned(b, player, depth, 0, 0 - Infinity)
       ELSE minimizeUnpruned(b, player, depth, 0, Infinity)

maximizeUnpruned(b, player, depth, i, maxEval) ==
    IF i > 8 THEN maxEval
    ELSE IF b[i] # null THEN maximizeUnpruned(b, player, depth, i + 1, maxEval)
    ELSE LET evalScore == minimaxUnpruned([b EXCEPT ![i] = player], player, depth + 1, FALSE)
         IN maximizeUnpruned(b, player, depth, i + 1, Max(maxEval, evalScore))

minimizeUnpruned(b, player, depth, i, minEval) ==
    IF i > 8 THEN minEval
    ELSE IF b[i] # null THEN minimizeUnpruned(b, player, depth, i + 1, minEval)
    ELSE LET evalScore == minimaxUnpruned([b EXCEPT ![i] = otherPlayer(player)], player, depth + 1, TRUE)
         IN minimizeUnpruned(b, player, depth, i + 1, Min(minEval, evalScore))

RECURSIVE bestFromUnpruned(_, _, _, _, _)
bestFromUnpruned(b, player, i, bestMove, bestValue) ==
    IF i > 8 THEN [bestMove |-> bestMove, bestValue |-> bestValue]
    ELSE IF b[i] # null THEN bestFromUnpruned(b, player, i + 1, bestMove, bestValue)
    ELSE LET value == minimaxUnpruned([b EXCEPT ![i] = player], player, 0, FALSE)
         IN IF value > bestValue
            THEN bestFromUnpruned(b, player, i + 1, i, value)
            ELSE bestFromUnpruned(b, player, i + 1, bestMove, bestValue)

CornerAnsweredByCentre ==
    (Len(moves) >= 2 /\ moves[1] = [player |-> "X", position |-> 0]) =>
       moves[2] = [player |-> "O", position |-> 4]

\* C18 witness: the board is X in 0, O in 4 and nothing else, placed by the
\* hard computer player.
CentreReplyPlaced ==
    /\ aiDifficulty = "hard"
    /\ moves = <<[player |-> "X", position |-> 0], [player |-> "O", position |-> 4]>>
    /\ board = [initializeBoard EXCEPT ![0] = "X", ![4] = "O"]

\* The board after the root move i of the searching player.
afterRoot(i) == [arg EXCEPT ![i] = returned.player]

\* The opponent completes a line with one move on b.
opponentWinsNext(b) ==
    \E j \in Cells :
       b[j] = null /\ hasLine([b EXCEPT ![j] = otherPlayer(returned.player)], otherPlayer(returned.player))

\* C19 as stated: with depth counted from the root position, a root move
\* that completes a line of the searching player scores 9.
ImmediateWinScoresNine ==
    (returned.op = "makeBestMove" /\ ~lineComplete(arg)) =>
       \A i \in Cells :
          (arg[i] = null /\ hasLine(afterRoot(i), returned.player)) =>
             moveValue(arg, returned.player, i) = 9

\* C19: a win of the searching player scores 10 - depth, a win of the
\* opponent depth - 10 and a draw 0, depth being the number of plies played
\* after the root move: a root move that completes a line scores 10, one
\* that fills the board without a line scores 0, one that leaves the
\* opponent a completing reply scores -9, and every root score is 10 less an
\* even depth, an odd depth less 10, or 0.
ScoresByDepthBelowRoot ==
    (returned.op = "makeBestMove" /\ ~lineComplete(arg)) =>
       \A i \in Cells :
          arg[i] = null =>
             LET value == moveValue(arg, returned.player, i)
                 after == afterRoot(i)
                 left == Cardinality({j \in Cells : after[j] = null})
             IN /\ hasLine(after, returned.player) => value = 10
                /\ (~hasLine(after, returned.player) /\ left = 0) => value = 0
                /\ (~hasLine(after, returned.player) /\ opponentWinsNext(after)) => value = 0 - 9
                /\ \/ value = 0
                   \/ \E depth \in {0, 2, 4, 6, 8} : depth <= left /\ value = 10 - depth
                   \/ \E depth \in {1, 3, 5, 7} : depth <= left /\ value = depth - 10

\* C19 witness: a call returned a move that completes a line and scores 10,
\* while another root move of the same position leaves the opponent a
\* completing reply and scores -9.
ImmediateWinScoredTen ==
    /\ returned.op = "makeBestMove"
    /\ ~lineComplete(arg)
    /\ hasLine(afterRoot(returned.move), returned.player)
    /\ moveValue(arg, returned.player, returned.move) = 10
    /\ \E i \in Cells :
          /\ arg[i] = null
          /\ ~hasLine(afterRoot(i), returned.player)
          /\ opponentWinsNext(afterRoot(i))
          /\ moveValue(arg, returned.player, i) = 0 - 9

\* C21: at every difficulty the callback's move on a position of play that
\* has an empty square and no complete line is the index of an empty square;
\* on a full board it is null and the callback places no mark.
TierMoveLegal ==
    returned.op = "aiMove" =>
       /\ (~isFull(arg) /\ ~lineComplete(arg)) =>
             /\ returned.move \in Cells
             /\ arg[returned.move] = null
       /\ isFull(arg) =>
             /\ returned.move = nullMove
             /\ returned.state.board = arg
             /\ returned.state.moves = <<>>

\* C21 witness: the hard difficulty called on a full board returned null.
FullBoardNoMove ==
    /\ returned.op = "aiMove"
    /\ returned.aiDifficulty = "hard"
    /\ isFull(arg)
    /\ returned.move = nullMove

\* C22 as stated: called on a position that is over, a line complete or the
\* board full, the engine selects no position.
FinishedBoardNoMove ==
    (returned.op = "aiMove" /\ (lineComplete(arg) \/ isFull(arg))) =>
       returned.move = nullMove

\* The game after two move requests handled one after the other.
sequentially(g, first, second) ==
    moveRoute(moveRoute(g, first.userId, first.position).game,
              second.userId, second.position).game

\* Two answered move requests that loaded the same game.
overlapped(r1, r2) ==
    /\ r1 # r2
    /\ inflight[r1].stage = "done" /\ inflight[r1].kind = "move"
    /\ inflight[r2].stage = "done" /\ inflight[r2].kind = "move"
    /\ inflight[r1].loaded = inflight[r2].loaded

\* C23 as stated: the persisted board keeps the count invariant with one
\* history entry per mark, and when two move requests on the same game have
\* both loaded it, run makeMove and saved, the persisted game is the one
\* that handling them one after the other, in one of the two orders, leaves,
\* and at most one of them was accepted.
OverlapSerializable ==
    /\ lead(game.board) \in {0, 1}
    /\ Len(game.moves) = count(game.board, "X") + count(game.board, "O")
    /\ \A r1, r2 \in Requests :
          overlapped(r1, r2) =>
             /\ \/ game = sequentially(inflight[r1].loaded, inflight[r1], inflight[r2])
                \/ game = sequentially(inflight[r1].loaded, inflight[r2], inflight[r1])
             /\ ~(/\ inflight[r1].message = "Move made successfully"
                  /\ inflight[r2].message = "Move made successfully")

\* The requests that added a completed game to the user's statistics.
submissions == {r \in Requests : inflight[r].stage = "done" /\ inflight[r].submitted}

\* C25 as stated: once every request is answered, gamesPlayed equals
\* gamesWon + gamesLost + gamesDraw and equals the number of completed games
\* submitted.
StatsConsistent ==
    (\A r \in Requests : inflight[r].stage \in {"idle", "done"}) =>
       /\ user.gamesPlayed = user.gamesWon + user.gamesLost + user.gamesDraw
       /\ user.gamesPlayed = Cardinality(submissions)

\* C28 as stated: in the client, once the board holds a complete line or is
\* full, no step places a further mark; the board stays as it is until
\* resetGame empties it.
NoMarkAfterGameOver ==
    [][(lineComplete(board) \/ isFull(board))
          => (board' = board \/ board' = initializeBoard)]_vars

\* C29 as stated: in the game against the computer every step that puts an O
\* on an empty square is the AI timeout placing the move its engine returned;
\* a click places no O.
OMarksByEngine ==
    [][(gameMode = "ai" /\ \E i \in Cells : board[i] = null /\ board'[i] = "O")
          => \E strategic \in BOOLEAN, randomIndex \in 0..8 :
                AIMove(strategic, randomIndex, FALSE)]_vars

\* The last two answers of GET /:gameId both carry a view.
twoViews == returned.op = "query" /\ returned.view # noView /\ returned.previous # noView

\* C26 as stated: a query changes no field of the game, and two queries with
\* no accepted move in between (the move count is the same) return identical
\* views.
QueryIdempotent ==
    /\ [][\A userId \in Users : Query(userId) => game' = game]_vars
    /\ [](twoViews /\ returned.view.moves = returned.previous.moves
             => returned.view = returned.previous)

\* C26 as amended: a query changes no field of the game, and two queries with
\* no accepted move and no abandonment in between (move count and status are
\* the same) return identical views.
QueryIdempotentUnlessAbandoned ==
    /\ [][\A userId \in Users : Query(userId) => game' = game]_vars
    /\ [](twoViews /\ returned.view.moves = returned.previous.moves
                   /\ returned.view.status = returned.previous.status
             => returned.view = returned.previous)

\* Two queries of a game in play were answered the same view.
SameViewAgain ==
    /\ twoViews
    /\ returned.view = returned.previous
    /\ returned.view.moves > 0
    /\ returned.view.status = "active"

\* The create requests that the contract accepts.
wellFormed(body) ==
    \/ body.gameType = "human"
    \/ (body.gameType = "ai" /\ body.aiDifficulty \in {"easy", "medium", "hard"})

\* C27: an answered create request with mode human, or mode ai and a
\* difficulty of easy, medium or hard, left a game with nine empty cells, X to
\* move, status active and no moves, and its view says so; any other request
\* was rejected and left no game.
CreateInitialOrNothing ==
    returned.op = "create" =>
       IF wellFormed(arg)
       THEN /\ response = "Game created successfully"
            /\ game.board = [i \in Cells |-> null]
            /\ game.currentPlayer = "X"
            /\ game.status = "active"
            /\ game.moves = <<>>
            /\ game.gameType = arg.gameType
            /\ returned.view = getGameState(game)
            /\ returned.view.moves = 0
       ELSE /\ response \in {"Invalid game type", "Invalid AI difficulty"}
            /\ game = noGame
            /\ returned.view = noView

\* A game against the strong tier was created.
HardGameCreated ==
    /\ returned.op = "create"
    /\ response = "Game created successfully"
    /\ game.gameType = "ai" /\ game.aiDifficulty = "hard"
    /\ game.players.playerO = null

\* The save requests sent, and those still to be sent, for finished game k.
sentFor(k) == {j \in 1..Len(saves.submitted) : saves.submitted[j].game = k}
dueFor(k) ==
    {j \in 1..Len(timers.timeouts) :
        timers.timeouts[j].game = k /\ ~timers.timeouts[j].matchSaved}

\* C24 as stated: every finished game of a logged-in user has exactly one save
\* request, sent or about to be sent by its 100 ms timeout, and the request
\* carries the game's final board, outcome and move list.
SealedExactlyOnce ==
    \A k \in 1..Len(saves.finished) :
        /\ Cardinality(sentFor(k)) + Cardinality(dueFor(k)) = 1
        /\ \A j \in sentFor(k) : saves.submitted[j] = saves.finished[k]

\* C30 as stated: whenever a game has ended, the first or a later one, the
\* countdown is running: the interval is live and between 1 and 10 seconds
\* are left.
CountdownRunsWhenFinished ==
    finishedOf(clientState) =>
        /\ timers.interval.armed
        /\ autoRestartCountdown \in 1..10

\* C31: after makeBestMove the caller's board is the board it passed, the
\* working copy is that board again, and every minimax call of the search
\* returned with the working board it was entered with; the move is the one
\* the search on values returns.
SearchRestoresBoard ==
    returned.op = "makeBestMove" =>
        /\ returned.board = arg
        /\ returned.boardCopy = arg
        /\ returned.search.restored
        /\ returned.move = makeBestMove(arg, returned.player, 0)

\* A search three levels deep, some of whose loops were left by the break.
DeepSearchRestored ==
    /\ returned.op = "makeBestMove"
    /\ returned.search.deepest >= 3
    /\ returned.search.breaks > 0
    /\ returned.boardCopy = arg

\* C37: in a search from a position with n empty squares every recursive
\* call is made on a board with one empty square fewer than its caller's,
\* the depth argument never exceeds n - 1 (so at most n calls are nested,
\* n <= 9), and a call on a board with a complete line or without an empty
\* square makes no recursive call.
SearchDepthBounded ==
    returned.op = "makeBestMove" =>
        /\ returned.search.shrinks
        /\ returned.search.stops
        /\ returned.search.deepest <= emptyCount(arg) - 1
        /\ emptyCount(arg) <= 9

\* The search from the empty board went down to the full board.
SearchReachedFullBoard ==
    /\ returned.op = "makeBestMove"
    /\ emptyCount(arg) = 9
    /\ returned.search.deepest = 8

\* C32 as stated: a completed game carries the result of each player, in
\* agreement with the winner, and a totalMoves equal to the length of its
\* move list.
CompletedFullyAttributed ==
    game.status = "completed" =>
        /\ <<game.result.winner, game.result.playerXResult, game.result.playerOResult>>
              \in {<<"X", "win", "lose">>, <<"O", "lose", "win">>, <<"draw", "draw", "draw">>}
        /\ game.totalMoves = Len(game.moves)

\* The board b is the replay of history: as many moves as marks, no position
\* twice, each mark that of the move at its position, players alternating
\* from X.
replayOf(b, history) ==
    /\ Len(history) = count(b, "X") + count(b, "O")
    /\ \A j, k \in 1..Len(history) : j # k => history[j].position # history[k].position
    /\ \A k \in 1..Len(history) : b[history[k].position] = history[k].player
    /\ \A k \in 1..Len(history) : history[k].player = IF k % 2 = 1 THEN "X" ELSE "O"

\* C33 as stated: in every reachable state the board of the stored game and
\* the board of the client are the replay of their move history.
BoardIsReplay ==
    /\ replayOf(game.board, game.moves)
    /\ replayOf(board, moves)

\* C34: after every sequence of accepted moves the client and the stored game
\* hold the same board, the same move list and the same outcome: in
\* progress, a draw, or the same winner with the same winning line.
SameGame ==
    /\ board = game.board
    /\ moves = game.moves
    /\ IF game.status = "active" THEN winner = null /\ ~isDraw
       ELSE IF game.result.winner = "draw" THEN winner = null /\ isDraw
       ELSE /\ winner = game.result.winner
            /\ winningSquares = game.result.winningLine
            /\ ~isDraw

\* A ninth move completed a line on both sides.
NinthMoveWinsOnBothSides ==
    /\ Len(moves) = 9
    /\ winner = "X"
    /\ game.result.endReason = "win"

\* It is the computer's turn in a game that is not over.
aiToMove == gameMode = "ai" /\ currentPlayer = "O" /\ winner = null /\ ~isDraw

\* C35: whenever it is the computer's turn in a game that is not over, a
\* timeout is armed, and the turn eventually passes to X: an O mark was
\* placed, or the game was reset or the mode changed first.
AIAlwaysAnswers ==
    /\ [](aiToMove => aiTimer.armed)
    /\ (aiToMove ~> currentPlayer = "X")

\* The computer's turn after the difficulty was changed during it: the
\* timeout armed is the one of the new difficulty.
RearmedForNewDifficulty ==
    /\ aiToMove
    /\ aiTimer.armed
    /\ aiTimer.aiDifficulty = "hard"
    /\ aiDifficulty = "hard"
    /\ Len(moves) = 3

\* The step is a resetGame: the Restart Game button, a mode button, or the
\* tick at which the countdown expires.
restarts ==
    \/ SessionRestart
    \/ \E mode \in {"human", "ai"} : SessionSetGameMode(mode)
    \/ SessionTick /\ autoRestartCountdown <= 1

\* C36: after a manual restart, a mode switch or an automatic restart all
\* nine cells are Empty, currentPlayer is X, winner is null, isDraw is false,
\* winningSquares and moves are empty, matchSaved is false and the countdown
\* is 0; resetGame leaves aiDifficulty unchanged, and gameMode unless the mode
\* button set it.
ResetRestoresInitial ==
    [][restarts =>
        /\ board' = initializeBoard
        /\ currentPlayer' = "X"
        /\ winner' = null
        /\ isDraw' = FALSE
        /\ winningSquares' = <<>>
        /\ moves' = <<>>
        /\ matchSaved' = FALSE
        /\ autoRestartCountdown' = 0
        /\ aiDifficulty' = aiDifficulty
        /\ (SessionRestart \/ SessionTick) => gameMode' = gameMode]_vars

\* The configuration after an automatic restart of a finished game: the
\* interval has gone and the state still holds its id.
AfterAutomaticRestart ==
    /\ Len(saves.finished) >= 1
    /\ autoRestartTimer # noIntervalId
    /\ ~timers.interval.armed
    /\ board = initializeBoard
    /\ moves = <<>>
    /\ winner = null
    /\ autoRestartCountdown = 0

\* The empty cells at which mark completes a line that checkWinner reports.
winningCells(b, mark) ==
    {i \in Cells : b[i] = null /\ checkWinner([b EXCEPT ![i] = mark]).player = mark}

\* C38: when the engine's mark has an empty cell that wins immediately,
\* makeBestMove returns the lowest such cell; when it has none and the
\* opponent has exactly one immediately winning cell, it returns that cell.
TakesWinBlocksLoss ==
    returned.op = "makeBestMove" =>
        LET wins == winningCells(arg, returned.player)
            threats == winningCells(arg, otherPlayer(returned.player))
        IN /\ wins # {} =>
                /\ returned.move \in wins
                /\ \A i \in wins : returned.move <= i
           /\ (wins = {} /\ Cardinality(threats) = 1) => returned.move \in threats

\* A block in a game in progress: the engine has no winning cell, the
\* opponent exactly one, which was returned and is not the first empty cell.
BlockReturned ==
    /\ returned.op = "makeBestMove"
    /\ checkWinner(arg).player = null
    /\ winningCells(arg, returned.player) = {}
    /\ winningCells(arg, otherPlayer(returned.player)) = {returned.move}
    /\ \E i \in Cells : i < returned.move /\ arg[i] = null

\* C39: in every reachable state of the provider user is non-null exactly
\* when isAuthenticated is true, and isAuthenticated implies a non-null token.
AuthCoherent ==
    /\ auth.state.user # null <=> auth.state.isAuthenticated
    /\ auth.state.isAuthenticated => auth.state.token # null
====
